---- MODULE Spec2Model ----
(***************************************************************************)
(* Bounty escrow contract (contracts/bounty_escrow/contracts/escrow):      *)
(* the custody state machine of lib.rs as a state machine over the         *)
(* contract storage and the token balances.                                *)
(*                                                                         *)
(* Every entry point is an operator from a world record (the contract      *)
(* storage plus the token ledger) to a result code and a new world,        *)
(* written in the order of the statements of the source, error paths       *)
(* included.  The actions wrap these operators in the host's invocation    *)
(* rule: a call that returns an error or panics is discarded as a whole.   *)
(***************************************************************************)
EXTENDS Integers, Sequences, FiniteSets, TLC

\* ------------------------------------------------------------------------
\* Bounds of the model
\* ------------------------------------------------------------------------
MaxTime == 2
MaxBounty == 2
MaxAmount == 10
MaxBatch == 2
MaxOps == 6
MaxNested == 1
IntBits == 16
\* The largest max_attempts of a retry configuration that is run.
MaxAttempts == 3
\* Multisig: the proposals created and the calls that succeed.
MaxProposals == 2
MaxMsOps == 8
\* Governance: the proposal ids, the clock after each start, the calls.
MaxGovProposals == 2
MaxGovClock == 3
MaxGovOps == 7
\* The circuit breaker's timeout, scaled down from 60 s, the ledger times it is
\* run over and the number of outcomes recorded on it.
TimeoutDuration == 2
MaxBreakerTime == 6
MaxRecords == 8
\* The rate limiter's configuration, scaled down from 3600 s, 10 operations and
\* 60 s, and the ledger times it is run over.
WindowSize == 6
MaxOperations == 2
CooldownPeriod == 2
MaxRateTime == 9

\* ------------------------------------------------------------------------
\* Program constants
\* ------------------------------------------------------------------------
BASIS_POINTS == 10000
MAX_FEE_RATE == 1000
MAX_BATCH_SIZE == 100
FAILURE_THRESHOLD == 5
TOTAL_POSSIBLE_VOTES == 1000
EXECUTION_WINDOW == 604800
STUB_VOTING_POWER == 100
SUCCESS_THRESHOLD == 2

\* ------------------------------------------------------------------------
\* Value sets the inputs are drawn from
\* ------------------------------------------------------------------------
BountyIds == 1..MaxBounty
Times == 0..MaxTime
PartAmount == (MaxAmount \div 2) + 1

Depositor == "dep"
Contributor == "con"
AdminAddr == "adm"
FeeAddr == "fee"
Custody == "cus"
Accounts == {Depositor, Contributor, AdminAddr, FeeAddr, Custody}

Recipients == {Depositor, Contributor}
RefundModes == {"Full", "Partial", "Custom"}

\* Option<T>
None == [some |-> FALSE]
Some(x) == [some |-> TRUE, v |-> x]
OptionOf(S) == {None} \cup {Some(x) : x \in S}

VARIABLES
    admin,      \* DataKey::Admin present (init has run)
    adminToken, \* the values stored under DataKey::Admin and DataKey::Token
    paused,     \* DataKey::IsPaused
    feeConfig,  \* DataKey::FeeConfig
    escrows,    \* DataKey::Escrow(bounty_id) -> Escrow, for the ids that exist
    approvals,  \* DataKey::RefundApproval(bounty_id) -> RefundApproval
    guard,      \* DataKey::ReentrancyGuard present
    bal,        \* token ledger: account -> balance
    index,      \* BOUNTY_INDEX: bounty_id -> IndexedBounty, for the ids indexed
    now,        \* env.ledger().timestamp()
    gross,      \* history variable: bounty id -> amount argument of its lock
    last,       \* the call that succeeded last
    frame,      \* an outer call suspended in its token transfer, if any
    ops,        \* number of calls that have succeeded (bounded by MaxOps)
    feeCall,    \* one call of calculate_fee: its arguments and what it returned
    rateState,  \* AntiAbuseKey::State(address) -> AddressState, for the keys set
    allowedAt,  \* history variable: address -> ledger times of its allowed calls
    breaker,    \* CircuitBreakerKey::State(operation_type): one CircuitBreaker
    breakerLog, \* history variable: the last call on the breaker and what it saw
    retryCall,  \* the last call of execute_with_retry: its arguments and its outcome
    multisig,   \* multisig storage: Config, Proposal(id), ProposalCounter
    msLog,      \* history variable: the last multisig call that succeeded
    governance  \* governance storage: GOV_CFG, PROPOSALS, PROP_CNT, VOTES

storeVars == <<admin, adminToken, paused, feeConfig, escrows, approvals, guard, bal, index>>
\* State of the parts that stand beside the escrow store.
rateVars == <<rateState, allowedAt>>
breakerVars == <<breaker, breakerLog>>
retryVars == <<retryCall>>
\* The parts beside the escrow store, the fee engine, the rate limiter and the
\* breaker's own calls.
msVars == <<multisig, msLog>>
govVars == <<governance>>
otherVars == <<retryVars, msVars, govVars>>
auxVars == <<feeCall, rateVars, breakerVars, otherVars>>
vars == <<admin, adminToken, paused, feeConfig, escrows, approvals, guard, bal, index, now, gross, last, frame, ops, auxVars>>

\* The world a call runs in: contract storage and token ledger, and the
\* lifecycle hooks the call has invoked so far (none when it starts).
World ==
    [admin |-> admin, adminToken |-> adminToken, paused |-> paused,
     feeConfig |-> feeConfig,
     escrows |-> escrows, approvals |-> approvals, guard |-> guard, bal |-> bal,
     index |-> index, hooks |-> <<>>]

Commit(w) ==
    /\ admin' = w.admin
    /\ adminToken' = w.adminToken
    /\ paused' = w.paused
    /\ feeConfig' = w.feeConfig
    /\ escrows' = w.escrows
    /\ approvals' = w.approvals
    /\ guard' = w.guard
    /\ bal' = w.bal
    /\ index' = w.index

\* A call's outcome: result code, world at the point of return, and, when the
\* call stands at its first token transfer, the locals it holds there.
Ret(code, w) == [res |-> code, w |-> w]
AtTransfer(w, loc) == [res |-> "Transfer", w |-> w, loc |-> loc]

Panics == {"RateLimited", "Reentrancy", "TransferFailed"}

\* ------------------------------------------------------------------------
\* Storage and token primitives
\* ------------------------------------------------------------------------
Has(m, k) == k \in DOMAIN m
Set(m, k, v) == [x \in (DOMAIN m) \cup {k} |-> IF x = k THEN v ELSE m[x]]
Remove(m, k) == [x \in (DOMAIN m) \ {k} |-> m[x]]

\* token::Client::transfer: moves amt or fails the whole call.
CanTransfer(b, from, amt) == amt >= 0 /\ b[from] >= amt
Transfer(b, from, to, amt) ==
    [a \in DOMAIN b |->
        (IF a = to THEN amt ELSE 0) + (IF a = from THEN b[a] - amt ELSE b[a])]

RECURSIVE SumAmounts(_)
SumAmounts(h) == IF h = <<>> THEN 0 ELSE Head(h).amount + SumAmounts(Tail(h))

\* ------------------------------------------------------------------------
\* Fee engine
\* ------------------------------------------------------------------------
\* Mutant of calculate_fee: no fee is ever charged.
calculate_fee_NoFee(amount, fee_rate) == 0

\* i128, at the width IntBits.
I128_MAX == 2^(IntBits - 1) - 1
I128_MIN == -(2^(IntBits - 1))

\* Mutant of checked_mul: the product wraps around instead of being refused.
checked_mul_Wrapping(a, b) ==
    Some(((a * b - I128_MIN) % 2^IntBits) + I128_MIN)

\* i128::checked_mul: None when the product does not fit.
checked_mul(a, b) ==
    IF a * b > I128_MAX \/ a * b < I128_MIN THEN None ELSE Some(a * b)

\* i128::checked_div: the quotient rounded toward zero; None for a zero
\* divisor and for MIN / -1.
checked_div(a, b) ==
    IF b = 0 \/ (a = I128_MIN /\ b = -1) THEN None
    ELSE LET abs(x) == IF x < 0 THEN -x ELSE x
             q == abs(a) \div abs(b)
         IN  Some(IF (a < 0) = (b < 0) THEN q ELSE -q)

calculate_fee(amount, fee_rate) ==
    IF fee_rate = 0 THEN 0
    ELSE LET m == checked_mul(amount, fee_rate)
         IN  IF ~m.some THEN 0
             ELSE LET d == checked_div(m.v, BASIS_POINTS)
                  IN  IF d.some THEN d.v ELSE 0

DefaultFeeConfig ==
    [lock_fee_rate |-> 0, release_fee_rate |-> 0,
     fee_recipient |-> AdminAddr, fee_enabled |-> FALSE]

\* ------------------------------------------------------------------------
\* init
\* ------------------------------------------------------------------------
\* Mutant of init: a later call stores its arguments over the old ones.
init_Again(w, rl, new_admin, new_token) ==
    IF ~rl THEN Ret("RateLimited", w)
    ELSE Ret("Ok", [w EXCEPT
                      !.admin = TRUE,
                      !.adminToken = Some([admin |-> new_admin,
                                           token |-> new_token]),
                      !.feeConfig = [DefaultFeeConfig EXCEPT
                                       !.fee_recipient = new_admin]])

init(w, rl, new_admin, new_token) ==
    IF ~rl THEN Ret("RateLimited", w)
    ELSE IF w.admin THEN Ret("AlreadyInitialized", w)
    ELSE Ret("Ok", [w EXCEPT
                      !.admin = TRUE,
                      !.adminToken = Some([admin |-> new_admin,
                                           token |-> new_token]),
                      !.feeConfig = [DefaultFeeConfig EXCEPT
                                       !.fee_recipient = new_admin]])

\* ------------------------------------------------------------------------
\* Index and lifecycle hooks
\* ------------------------------------------------------------------------
\* IndexedBounty.created_at and updated_at are written and never read by the
\* contract: left out.  The status, depositor, amount and timestamp indexes
\* are keyed copies of the fields of the primary entry: left out.
index_bounty(w, bounty) ==
    [w EXCEPT !.index = Set(w.index, bounty.bounty_id, bounty)]

update_bounty_status(w, bounty_id, new_status) ==
    IF Has(w.index, bounty_id)
    THEN [w EXCEPT !.index = Set(w.index, bounty_id,
                                 [w.index[bounty_id] EXCEPT !.status = new_status])]
    ELSE w

\* One invocation of a hook, as the call's record of it.
Invoked(w, hook, bounty_id) == [w EXCEPT !.hooks = Append(@, <<hook, bounty_id>>)]

on_funds_locked(w, bounty_id, amount, depositor, deadline) ==
    Invoked(index_bounty(w, [bounty_id |-> bounty_id, depositor |-> depositor,
                             amount |-> amount, deadline |-> deadline,
                             status |-> "Locked"]),
            "on_funds_locked", bounty_id)

on_funds_released(w, bounty_id, amount, recipient, remaining_amount, is_partial) ==
    LET new_status == IF remaining_amount > 0 THEN "PartiallyReleased"
                      ELSE "Released"
    IN  Invoked(update_bounty_status(w, bounty_id, new_status),
                "on_funds_released", bounty_id)

\* (triggered_by goes into the events only: left out.)
on_funds_refunded(w, bounty_id, amount, refund_to, remaining_amount, refund_mode) ==
    LET new_status == IF remaining_amount > 0 THEN "PartiallyReleased"
                      ELSE "Refunded"
    IN  Invoked(update_bounty_status(w, bounty_id, new_status),
                "on_funds_refunded", bounty_id)

\* ------------------------------------------------------------------------
\* lock_funds
\* ------------------------------------------------------------------------
\* Mutant of lock_funds_pre: a deadline equal to the ledger time is accepted.
lock_funds_pre_DeadlineNow(w, rl, depositor, bounty_id, amount, deadline, t) ==
    IF ~rl THEN Ret("RateLimited", w)
    ELSE IF w.paused THEN Ret("ContractPaused", w)
    ELSE IF w.guard THEN Ret("Reentrancy", w)
    ELSE
      LET w1 == [w EXCEPT !.guard = TRUE]
          cleared == [w1 EXCEPT !.guard = FALSE]
      IN  IF amount <= 0 THEN Ret("InvalidAmount", cleared)
          ELSE IF deadline < t THEN Ret("InvalidDeadline", cleared)
          ELSE IF ~w1.admin THEN Ret("NotInitialized", cleared)
          ELSE IF Has(w1.escrows, bounty_id) THEN Ret("BountyExists", cleared)
          ELSE
            LET fee_config == w1.feeConfig
                fee_amount ==
                    IF fee_config.fee_enabled /\ fee_config.lock_fee_rate > 0
                    THEN calculate_fee(amount, fee_config.lock_fee_rate)
                    ELSE 0
            IN  AtTransfer(w1,
                    [op |-> "lock_funds", depositor |-> depositor,
                     bounty_id |-> bounty_id, amount |-> amount,
                     deadline |-> deadline, fee_config |-> fee_config,
                     fee_amount |-> fee_amount,
                     net_amount |-> amount - fee_amount])

lock_funds_pre(w, rl, depositor, bounty_id, amount, deadline, t) ==
    IF ~rl THEN Ret("RateLimited", w)
    ELSE IF w.paused THEN Ret("ContractPaused", w)
    ELSE IF w.guard THEN Ret("Reentrancy", w)
    ELSE
      LET w1 == [w EXCEPT !.guard = TRUE]
          cleared == [w1 EXCEPT !.guard = FALSE]
      IN  IF amount <= 0 THEN Ret("InvalidAmount", cleared)
          ELSE IF deadline <= t THEN Ret("InvalidDeadline", cleared)
          ELSE IF ~w1.admin THEN Ret("NotInitialized", cleared)
          ELSE IF Has(w1.escrows, bounty_id) THEN Ret("BountyExists", cleared)
          ELSE
            LET fee_config == w1.feeConfig
                fee_amount ==
                    IF fee_config.fee_enabled /\ fee_config.lock_fee_rate > 0
                    THEN calculate_fee(amount, fee_config.lock_fee_rate)
                    ELSE 0
            IN  AtTransfer(w1,
                    [op |-> "lock_funds", depositor |-> depositor,
                     bounty_id |-> bounty_id, amount |-> amount,
                     deadline |-> deadline, fee_config |-> fee_config,
                     fee_amount |-> fee_amount,
                     net_amount |-> amount - fee_amount])

lock_funds_post(w, loc, t) ==
    IF ~CanTransfer(w.bal, loc.depositor, loc.net_amount)
    THEN Ret("TransferFailed", w)
    ELSE
      LET b1 == Transfer(w.bal, loc.depositor, Custody, loc.net_amount)
      IN  IF loc.fee_amount > 0 /\ ~CanTransfer(b1, loc.depositor, loc.fee_amount)
          THEN Ret("TransferFailed", [w EXCEPT !.bal = b1])
          ELSE
            LET b2 == IF loc.fee_amount > 0
                      THEN Transfer(b1, loc.depositor,
                                    loc.fee_config.fee_recipient, loc.fee_amount)
                      ELSE b1
                escrow == [depositor |-> loc.depositor,
                           amount |-> loc.net_amount,
                           status |-> "Locked",
                           deadline |-> loc.deadline,
                           refund_history |-> <<>>,
                           remaining_amount |-> loc.amount]
                stored == [w EXCEPT !.bal = b2,
                                    !.escrows = Set(w.escrows, loc.bounty_id, escrow)]
                hooked == on_funds_locked(stored, loc.bounty_id, loc.amount,
                                          loc.depositor, loc.deadline)
            IN  Ret("Ok", [hooked EXCEPT !.guard = FALSE])

lock_funds(w, rl, depositor, bounty_id, amount, deadline, t) ==
    LET p == lock_funds_pre(w, rl, depositor, bounty_id, amount, deadline, t)
    IN  IF p.res = "Transfer" THEN lock_funds_post(p.w, p.loc, t)
        ELSE Ret(p.res, p.w)

\* ------------------------------------------------------------------------
\* release_funds
\* ------------------------------------------------------------------------
\* Mutant of Releasable: a partially refunded escrow can be released too.
Releasable_Partial(status) == status = "Locked" \/ status = "PartiallyRefunded"

\* The status release_funds and batch_release_funds accept.
Releasable(status) == status = "Locked"

release_funds_pre(w, rl, bounty_id, contributor, t) ==
    IF w.guard THEN Ret("Reentrancy", w)
    ELSE
      LET w1 == [w EXCEPT !.guard = TRUE]
          cleared == [w1 EXCEPT !.guard = FALSE]
      IN  IF ~w1.admin THEN Ret("NotInitialized", cleared)
          ELSE IF w1.paused THEN Ret("ContractPaused", cleared)
          ELSE IF ~rl THEN Ret("RateLimited", w1)
          ELSE IF ~Has(w1.escrows, bounty_id) THEN Ret("BountyNotFound", cleared)
          ELSE IF ~Releasable(w1.escrows[bounty_id].status)
               THEN Ret("FundsNotLocked", cleared)
          ELSE
            LET escrow == [w1.escrows[bounty_id] EXCEPT !.status = "Released"]
                w2 == [w1 EXCEPT !.escrows = Set(w1.escrows, bounty_id, escrow)]
                fee_config == w2.feeConfig
                fee_amount ==
                    IF fee_config.fee_enabled /\ fee_config.release_fee_rate > 0
                    THEN calculate_fee(escrow.amount, fee_config.release_fee_rate)
                    ELSE 0
            IN  AtTransfer(w2,
                    [op |-> "release_funds", bounty_id |-> bounty_id,
                     contributor |-> contributor, escrow |-> escrow,
                     fee_config |-> fee_config, fee_amount |-> fee_amount,
                     net_amount |-> escrow.amount - fee_amount])

\* Mutant of ReleasedRecord: remaining_amount is left as it was.
ReleasedRecord_KeepRemaining(escrow) == [escrow EXCEPT !.status = "Released"]

\* The record release_funds stores last: status Released, remaining_amount 0.
ReleasedRecord(escrow) ==
    [escrow EXCEPT !.status = "Released", !.remaining_amount = 0]

\* Mutant of release_funds_post: the guard is not removed at the end.
release_funds_post_KeepGuard(w, loc, t) ==
    IF ~CanTransfer(w.bal, Custody, loc.net_amount)
    THEN Ret("TransferFailed", w)
    ELSE
      LET b1 == Transfer(w.bal, Custody, loc.contributor, loc.net_amount)
      IN  IF loc.fee_amount > 0 /\ ~CanTransfer(b1, Custody, loc.fee_amount)
          THEN Ret("TransferFailed", [w EXCEPT !.bal = b1])
          ELSE
            LET b2 == IF loc.fee_amount > 0
                      THEN Transfer(b1, Custody,
                                    loc.fee_config.fee_recipient, loc.fee_amount)
                      ELSE b1
                escrow == ReleasedRecord(loc.escrow)
                stored == [w EXCEPT !.bal = b2,
                                    !.escrows = Set(w.escrows, loc.bounty_id, escrow)]
            IN  Ret("Ok", on_funds_released(stored, loc.bounty_id, loc.net_amount,
                                            loc.contributor,
                                            escrow.remaining_amount, FALSE))

release_funds_post(w, loc, t) ==
    IF ~CanTransfer(w.bal, Custody, loc.net_amount)
    THEN Ret("TransferFailed", w)
    ELSE
      LET b1 == Transfer(w.bal, Custody, loc.contributor, loc.net_amount)
      IN  IF loc.fee_amount > 0 /\ ~CanTransfer(b1, Custody, loc.fee_amount)
          THEN Ret("TransferFailed", [w EXCEPT !.bal = b1])
          ELSE
            LET b2 == IF loc.fee_amount > 0
                      THEN Transfer(b1, Custody,
                                    loc.fee_config.fee_recipient, loc.fee_amount)
                      ELSE b1
                escrow == ReleasedRecord(loc.escrow)
                stored == [w EXCEPT !.bal = b2,
                                    !.escrows = Set(w.escrows, loc.bounty_id, escrow)]
                hooked == on_funds_released(stored, loc.bounty_id, loc.net_amount,
                                            loc.contributor,
                                            escrow.remaining_amount, FALSE)
            IN  Ret("Ok", [hooked EXCEPT !.guard = FALSE])

release_funds(w, rl, bounty_id, contributor, t) ==
    LET p == release_funds_pre(w, rl, bounty_id, contributor, t)
    IN  IF p.res = "Transfer" THEN release_funds_post(p.w, p.loc, t)
        ELSE Ret(p.res, p.w)

\* ------------------------------------------------------------------------
\* approve_refund
\* ------------------------------------------------------------------------
\* Mutant of Refundable: a Refunded escrow passes the status check of refund.
Refundable_NotReleased(status) == status # "Released"

\* The statuses refund and approve_refund accept.

Refundable(status) == status = "Locked" \/ status = "PartiallyRefunded"

approve_refund_KeepFirst(w, bounty_id, amount, recipient, mode, t) ==
    IF ~w.admin THEN Ret("NotInitialized", w)
    ELSE IF ~Has(w.escrows, bounty_id) THEN Ret("BountyNotFound", w)
    ELSE IF ~(w.escrows[bounty_id].status = "Locked"
              \/ w.escrows[bounty_id].status = "PartiallyRefunded")
         THEN Ret("FundsNotLocked", w)
    ELSE IF amount <= 0 \/ amount > w.escrows[bounty_id].remaining_amount
         THEN Ret("InvalidAmount", w)
    ELSE IF Has(w.approvals, bounty_id) THEN Ret("Ok", w)
    ELSE Ret("Ok", [w EXCEPT !.approvals =
                      Set(w.approvals, bounty_id,
                          [bounty_id |-> bounty_id, amount |-> amount,
                           recipient |-> recipient, mode |-> mode,
                           approved_by |-> AdminAddr])])

approve_refund(w, bounty_id, amount, recipient, mode, t) ==
    IF ~w.admin THEN Ret("NotInitialized", w)
    ELSE IF ~Has(w.escrows, bounty_id) THEN Ret("BountyNotFound", w)
    ELSE IF ~Refundable(w.escrows[bounty_id].status) THEN Ret("FundsNotLocked", w)
    ELSE IF amount <= 0 \/ amount > w.escrows[bounty_id].remaining_amount
         THEN Ret("InvalidAmount", w)
    ELSE
      \* RefundApproval.approved_at is written and never read: left out.
      LET approval == [bounty_id |-> bounty_id, amount |-> amount,
                       recipient |-> recipient, mode |-> mode,
                       approved_by |-> AdminAddr]
      IN  Ret("Ok", [w EXCEPT !.approvals = Set(w.approvals, bounty_id, approval)])

\* ------------------------------------------------------------------------
\* refund
\* ------------------------------------------------------------------------
\* Mutant of ApprovalMatches: the recipient of the approval is not compared.
ApprovalMatches_AnyRecipient(approval, refund_amount, refund_recipient, mode) ==
    /\ approval.amount = refund_amount
    /\ approval.mode = mode

\* Does the stored approval cover this request?
ApprovalMatches(approval, refund_amount, refund_recipient, mode) ==
    /\ approval.amount = refund_amount
    /\ approval.recipient = refund_recipient
    /\ approval.mode = mode

\* Mutant of ConsumeApproval: the approval is left in place after its use.
ConsumeApproval_Keep(w, bounty_id) == w

\* "Clear approval after use".
ConsumeApproval(w, bounty_id) ==
    [w EXCEPT !.approvals = Remove(w.approvals, bounty_id)]

\* Mutant of refund_mode: every mode is served as if the deadline had passed.
refund_mode_NoDeadline(w, escrow, bounty_id, amount, recipient, mode, is_before_deadline) ==
    CASE mode = "Full" ->
            [gate |-> "Ok", refund_amount |-> escrow.remaining_amount,
             refund_recipient |-> escrow.depositor, w |-> w]
      [] mode = "Partial" ->
            [gate |-> "Ok",
             refund_amount |-> IF amount.some THEN amount.v
                               ELSE escrow.remaining_amount,
             refund_recipient |-> escrow.depositor, w |-> w]
      [] mode = "Custom" ->
            IF ~amount.some \/ ~recipient.some
            THEN [gate |-> "InvalidAmount", refund_amount |-> 0,
                  refund_recipient |-> escrow.depositor, w |-> w]
            ELSE [gate |-> "Ok", refund_amount |-> amount.v,
                  refund_recipient |-> recipient.v, w |-> w]

\* The match on the mode: amount, recipient, and the gate before the deadline.
\* gate is "Ok" or the error the arm returns; w is the storage after the arm.
refund_mode(w, escrow, bounty_id, amount, recipient, mode, is_before_deadline) ==
    CASE mode = "Full" ->
            [gate |-> IF is_before_deadline THEN "DeadlineNotPassed" ELSE "Ok",
             refund_amount |-> escrow.remaining_amount,
             refund_recipient |-> escrow.depositor, w |-> w]
      [] mode = "Partial" ->
            [gate |-> IF is_before_deadline THEN "DeadlineNotPassed" ELSE "Ok",
             refund_amount |-> IF amount.some THEN amount.v
                               ELSE escrow.remaining_amount,
             refund_recipient |-> escrow.depositor, w |-> w]
      [] mode = "Custom" ->
            IF ~amount.some \/ ~recipient.some
            THEN [gate |-> "InvalidAmount", refund_amount |-> 0,
                  refund_recipient |-> escrow.depositor, w |-> w]
            ELSE IF ~is_before_deadline
            THEN [gate |-> "Ok", refund_amount |-> amount.v,
                  refund_recipient |-> recipient.v, w |-> w]
            ELSE IF ~Has(w.approvals, bounty_id)
            THEN [gate |-> "RefundNotApproved", refund_amount |-> amount.v,
                  refund_recipient |-> recipient.v, w |-> w]
            ELSE IF ~ApprovalMatches(w.approvals[bounty_id], amount.v, recipient.v, mode)
            THEN [gate |-> "RefundNotApproved", refund_amount |-> amount.v,
                  refund_recipient |-> recipient.v, w |-> w]
            ELSE [gate |-> "Ok", refund_amount |-> amount.v,
                  refund_recipient |-> recipient.v,
                  w |-> ConsumeApproval(w, bounty_id)]

\* Mutant of refund_pre: an amount above remaining_amount is not rejected.
refund_pre_NoUpper(w, bounty_id, amount, recipient, mode, t) ==
    IF w.paused THEN Ret("ContractPaused", w)
    ELSE IF ~Has(w.escrows, bounty_id)
         THEN Ret("BountyNotFound", [w EXCEPT !.guard = FALSE])
    ELSE
      LET escrow == w.escrows[bounty_id]
      IN  IF ~Refundable(escrow.status) THEN Ret("FundsNotLocked", w)
          ELSE
            LET is_before_deadline == t < escrow.deadline
                m == refund_mode(w, escrow, bounty_id, amount, recipient, mode,
                                 is_before_deadline)
            IN  IF m.gate # "Ok" THEN Ret(m.gate, m.w)
                ELSE IF m.refund_amount <= 0
                     THEN Ret("InvalidAmount", m.w)
                ELSE IF m.w.bal[Custody] < m.refund_amount
                     THEN Ret("InsufficientFunds", m.w)
                ELSE AtTransfer(m.w,
                        [op |-> "refund", bounty_id |-> bounty_id,
                         escrow |-> escrow, mode |-> mode,
                         refund_amount |-> m.refund_amount,
                         refund_recipient |-> m.refund_recipient])

refund_pre(w, bounty_id, amount, recipient, mode, t) ==
    IF w.paused THEN Ret("ContractPaused", w)
    ELSE IF ~Has(w.escrows, bounty_id)
         THEN Ret("BountyNotFound", [w EXCEPT !.guard = FALSE])
    ELSE
      LET escrow == w.escrows[bounty_id]
      IN  IF ~Refundable(escrow.status) THEN Ret("FundsNotLocked", w)
          ELSE
            LET is_before_deadline == t < escrow.deadline
                m == refund_mode(w, escrow, bounty_id, amount, recipient, mode,
                                 is_before_deadline)
            IN  IF m.gate # "Ok" THEN Ret(m.gate, m.w)
                ELSE IF m.refund_amount <= 0
                        \/ m.refund_amount > escrow.remaining_amount
                     THEN Ret("InvalidAmount", m.w)
                ELSE IF m.w.bal[Custody] < m.refund_amount
                     THEN Ret("InsufficientFunds", m.w)
                ELSE AtTransfer(m.w,
                        [op |-> "refund", bounty_id |-> bounty_id,
                         escrow |-> escrow, mode |-> mode,
                         refund_amount |-> m.refund_amount,
                         refund_recipient |-> m.refund_recipient])

\* Mutant of StatusAfterRefund: an emptied escrow is PartiallyRefunded too.
StatusAfterRefund_Partial(remaining_amount) == "PartiallyRefunded"

\* The status refund stores for what is left.
StatusAfterRefund(remaining_amount) ==
    IF remaining_amount = 0 THEN "Refunded" ELSE "PartiallyRefunded"

\* Mutant of RefundedEscrow: the refund is paid and not recorded.
RefundedEscrow_NoRecord(escrow, refund_amount, refund_recipient, mode) ==
    LET remaining == escrow.remaining_amount - refund_amount
    IN  [escrow EXCEPT !.remaining_amount = remaining,
                       !.status = StatusAfterRefund(remaining)]

\* The escrow record refund stores: less remaining, one more record, new status.
\* (RefundRecord.timestamp is written and never read: left out.)
RefundedEscrow(escrow, refund_amount, refund_recipient, mode) ==
    LET remaining == escrow.remaining_amount - refund_amount
        refund_record == [amount |-> refund_amount,
                          recipient |-> refund_recipient,
                          mode |-> mode]
    IN  [escrow EXCEPT !.remaining_amount = remaining,
                       !.refund_history = Append(@, refund_record),
                       !.status = StatusAfterRefund(remaining)]

refund_post(w, loc, t) ==
    IF ~CanTransfer(w.bal, Custody, loc.refund_amount)
    THEN Ret("TransferFailed", w)
    ELSE
      LET escrow == RefundedEscrow(loc.escrow, loc.refund_amount,
                                   loc.refund_recipient, loc.mode)
          stored == [w EXCEPT
                        !.bal = Transfer(w.bal, Custody, loc.refund_recipient,
                                         loc.refund_amount),
                        !.escrows = Set(w.escrows, loc.bounty_id, escrow)]
          hooked == on_funds_refunded(stored, loc.bounty_id, loc.refund_amount,
                                      loc.refund_recipient,
                                      escrow.remaining_amount, loc.mode)
      IN  Ret("Ok", [hooked EXCEPT !.guard = FALSE])

refund(w, bounty_id, amount, recipient, mode, t) ==
    LET p == refund_pre(w, bounty_id, amount, recipient, mode, t)
    IN  IF p.res = "Transfer" THEN refund_post(p.w, p.loc, t)
        ELSE Ret(p.res, p.w)

\* ------------------------------------------------------------------------
\* batch_lock_funds
\* ------------------------------------------------------------------------
CountId(items, bounty_id) ==
    Cardinality({i \in 1..Len(items) : items[i].bounty_id = bounty_id})

\* Mutant of batch_lock_check: an id that exists already is not rejected.
batch_lock_check_NoExists(w, items, item, t) ==
    IF item.amount <= 0 THEN "InvalidAmount"
    ELSE IF CountId(items, item.bounty_id) > 1 THEN "DuplicateBountyId"
    ELSE "Ok"

\* Validation of one item of a lock batch: "Ok" or the error it raises.
batch_lock_check(w, items, item, t) ==
    IF Has(w.escrows, item.bounty_id) THEN "BountyExists"
    ELSE IF item.amount <= 0 THEN "InvalidAmount"
    ELSE IF CountId(items, item.bounty_id) > 1 THEN "DuplicateBountyId"
    ELSE "Ok"

\* Mutant of batch_lock_validate: only the first item is validated.
batch_lock_validate_FirstOnly(w, items, i, t) ==
    IF Len(items) = 0 THEN "Ok" ELSE batch_lock_check(w, items, items[1], t)

\* The validation loop: the error of the first item that fails, else "Ok".
RECURSIVE batch_lock_validate(_, _, _, _)
batch_lock_validate(w, items, i, t) ==
    IF i > Len(items) THEN "Ok"
    ELSE LET c == batch_lock_check(w, items, items[i], t)
         IN  IF c # "Ok" THEN c ELSE batch_lock_validate(w, items, i + 1, t)

\* The processing loop, from item i on.
RECURSIVE batch_lock_process(_, _, _)
batch_lock_process(w, items, i) ==
    IF i > Len(items) THEN Ret("Ok", w)
    ELSE
      LET item == items[i]
      IN  IF ~CanTransfer(w.bal, item.depositor, item.amount)
          THEN Ret("TransferFailed", w)
          ELSE
            LET escrow == [depositor |-> item.depositor,
                           amount |-> item.amount,
                           status |-> "Locked",
                           deadline |-> item.deadline,
                           refund_history |-> <<>>,
                           remaining_amount |-> item.amount]
                stored ==
                    [w EXCEPT !.bal = Transfer(w.bal, item.depositor, Custody,
                                               item.amount),
                              !.escrows = Set(w.escrows, item.bounty_id, escrow)]
            IN  batch_lock_process(
                    on_funds_locked(stored, item.bounty_id, item.amount,
                                    item.depositor, item.deadline),
                    items, i + 1)

batch_lock_funds(w, items, t) ==
    IF Len(items) = 0 THEN Ret("InvalidBatchSize", w)
    ELSE IF Len(items) > MAX_BATCH_SIZE THEN Ret("InvalidBatchSize", w)
    ELSE IF w.paused THEN Ret("ContractPaused", w)
    ELSE IF ~w.admin THEN Ret("NotInitialized", w)
    ELSE LET v == batch_lock_validate(w, items, 1, t)
         IN  IF v # "Ok" THEN Ret(v, w) ELSE batch_lock_process(w, items, 1)

\* ------------------------------------------------------------------------
\* batch_release_funds
\* ------------------------------------------------------------------------
\* Mutant of batch_release_check: a repeated id is not rejected.
batch_release_check_NoDuplicate(w, items, item) ==
    IF ~Has(w.escrows, item.bounty_id) THEN "BountyNotFound"
    ELSE IF ~Releasable(w.escrows[item.bounty_id].status) THEN "FundsNotLocked"
    ELSE "Ok"

\* Validation of one item of a release batch: "Ok" or the error it raises.
batch_release_check(w, items, item) ==
    IF ~Has(w.escrows, item.bounty_id) THEN "BountyNotFound"
    ELSE IF ~Releasable(w.escrows[item.bounty_id].status) THEN "FundsNotLocked"
    ELSE IF CountId(items, item.bounty_id) > 1 THEN "DuplicateBountyId"
    ELSE "Ok"

RECURSIVE batch_release_validate(_, _, _)
batch_release_validate(w, items, i) ==
    IF i > Len(items) THEN "Ok"
    ELSE LET c == batch_release_check(w, items, items[i])
         IN  IF c # "Ok" THEN c ELSE batch_release_validate(w, items, i + 1)

\* The record batch_release_funds stores for a released item.
BatchReleasedRecord(escrow) == [escrow EXCEPT !.status = "Released"]

RECURSIVE batch_release_process(_, _, _)
batch_release_process(w, items, i) ==
    IF i > Len(items) THEN Ret("Ok", w)
    ELSE
      LET item == items[i]
          escrow == w.escrows[item.bounty_id]
      IN  IF ~CanTransfer(w.bal, Custody, escrow.amount)
          THEN Ret("TransferFailed", w)
          ELSE
            LET released == BatchReleasedRecord(escrow)
                stored ==
                    [w EXCEPT !.bal = Transfer(w.bal, Custody, item.contributor,
                                               escrow.amount),
                              !.escrows = Set(w.escrows, item.bounty_id, released)]
            IN  batch_release_process(
                    on_funds_released(stored, item.bounty_id, released.amount,
                                      item.contributor, released.remaining_amount,
                                      FALSE),
                    items, i + 1)

\* Mutant of batch_release_funds: the pause flag is not looked at.
batch_release_funds_NoPause(w, items, t) ==
    IF Len(items) = 0 THEN Ret("InvalidBatchSize", w)
    ELSE IF Len(items) > MAX_BATCH_SIZE THEN Ret("InvalidBatchSize", w)
    ELSE IF ~w.admin THEN Ret("NotInitialized", w)
    ELSE LET v == batch_release_validate(w, items, 1)
         IN  IF v # "Ok" THEN Ret(v, w) ELSE batch_release_process(w, items, 1)

batch_release_funds(w, items, t) ==
    IF Len(items) = 0 THEN Ret("InvalidBatchSize", w)
    ELSE IF Len(items) > MAX_BATCH_SIZE THEN Ret("InvalidBatchSize", w)
    ELSE IF w.paused THEN Ret("ContractPaused", w)
    ELSE IF ~w.admin THEN Ret("NotInitialized", w)
    ELSE LET v == batch_release_validate(w, items, 1)
         IN  IF v # "Ok" THEN Ret(v, w) ELSE batch_release_process(w, items, 1)

\* ------------------------------------------------------------------------
\* Fee configuration, pause, emergency withdrawal
\* ------------------------------------------------------------------------
ValidRate_NoUpper(rate) == 0 <= rate

ValidRate(rate) == 0 <= rate /\ rate <= MAX_FEE_RATE

update_fee_config(w, lock_fee_rate, release_fee_rate, fee_recipient, fee_enabled) ==
    IF ~w.admin THEN Ret("NotInitialized", w)
    ELSE IF lock_fee_rate.some /\ ~ValidRate(lock_fee_rate.v)
         THEN Ret("InvalidFeeRate", w)
    ELSE IF release_fee_rate.some /\ ~ValidRate(release_fee_rate.v)
         THEN Ret("InvalidFeeRate", w)
    ELSE
      LET c == w.feeConfig
          fee_config ==
            [lock_fee_rate |-> IF lock_fee_rate.some THEN lock_fee_rate.v
                               ELSE c.lock_fee_rate,
             release_fee_rate |-> IF release_fee_rate.some THEN release_fee_rate.v
                                  ELSE c.release_fee_rate,
             fee_recipient |-> IF fee_recipient.some THEN fee_recipient.v
                               ELSE c.fee_recipient,
             fee_enabled |-> IF fee_enabled.some THEN fee_enabled.v
                             ELSE c.fee_enabled]
      IN  Ret("Ok", [w EXCEPT !.feeConfig = fee_config])

is_paused(w) == w.paused

pause(w) ==
    IF ~w.admin THEN Ret("NotInitialized", w)
    ELSE IF w.paused THEN Ret("Ok", w)
    ELSE Ret("Ok", [w EXCEPT !.paused = TRUE])

unpause(w) ==
    IF ~w.admin THEN Ret("NotInitialized", w)
    ELSE IF ~w.paused THEN Ret("Ok", w)
    ELSE Ret("Ok", [w EXCEPT !.paused = FALSE])

\* Mutant of emergency_withdraw: the pause flag is not looked at.
emergency_withdraw_AnyTime(w, recipient) ==
    IF ~w.admin THEN Ret("NotInitialized", w)
    ELSE LET balance == w.bal[Custody]
         IN  IF balance <= 0 THEN Ret("Ok", w)
             ELSE Ret("Ok", [w EXCEPT !.bal = Transfer(w.bal, Custody, recipient,
                                                       balance)])

emergency_withdraw(w, recipient) ==
    IF ~w.admin THEN Ret("NotInitialized", w)
    ELSE IF ~w.paused THEN Ret("Unauthorized", w)
    ELSE LET balance == w.bal[Custody]
         IN  IF balance <= 0 THEN Ret("Ok", w)
             ELSE Ret("Ok", [w EXCEPT !.bal = Transfer(w.bal, Custody, recipient,
                                                       balance)])

\* ------------------------------------------------------------------------
\* Inputs of the calls
\* ------------------------------------------------------------------------
Mint == MaxBounty * MaxAmount

\* init: the deployment names its admin and its token; a later init call may
\* name any address for either.
Token == "tok"
Tokens == {Token, "other"}
InitInputs == [admin : {AdminAddr}, token : {Token}]
InitArgs == [admin : Accounts \ {Custody}, token : Tokens]

\* Amounts: none, a part, the whole.
LockAmounts == {0, MaxAmount}
RefundAmounts == {0, PartAmount, MaxAmount}

\* Deadlines: one that is never in the future, one that is until MaxTime - 1.
Deadline == MaxTime - 1
Deadlines == {0, Deadline}

LockInputs == [bounty_id : BountyIds, amount : LockAmounts, deadline : Deadlines]

LockItems ==
    [bounty_id : BountyIds, depositor : {Depositor},
     amount : LockAmounts, deadline : Deadlines]
ReleaseItems == [bounty_id : BountyIds, contributor : {Contributor}]

SeqsUpTo(S, n) == UNION {[1..k -> S] : k \in 0..n}
LockBatches == SeqsUpTo(LockItems, MaxBatch)
ReleaseBatches == SeqsUpTo(ReleaseItems, MaxBatch)

\* refund(bounty_id, amount, recipient, mode): Full and Partial ignore the
\* recipient, Full ignores the amount.
RefundInputs ==
    [bounty_id : BountyIds, amount : {None}, recipient : {None}, mode : {"Full"}]
    \cup [bounty_id : BountyIds, amount : OptionOf(RefundAmounts),
          recipient : {None}, mode : {"Partial"}]
    \cup [bounty_id : BountyIds, amount : OptionOf(RefundAmounts \ {0}),
          recipient : OptionOf(Recipients), mode : {"Custom"}]

ApproveInputs ==
    [bounty_id : BountyIds, amount : RefundAmounts,
     recipient : {Contributor}, mode : {"Custom"}]
    \cup [bounty_id : BountyIds, amount : {PartAmount},
          recipient : {Contributor}, mode : {"Full"}]

\* update_fee_config(lock_fee_rate, release_fee_rate, fee_recipient, fee_enabled)
FeeInputs ==
    { <<Some(MAX_FEE_RATE), Some(MAX_FEE_RATE), Some(FeeAddr), Some(TRUE)>>,
      <<None, None, None, Some(FALSE)>>,
      <<Some(MAX_FEE_RATE + 1), None, None, None>>,
      <<Some(0), Some(MAX_FEE_RATE + 1), None, None>>,
      <<None, Some(0 - 1), None, None>> }

\* ------------------------------------------------------------------------
\* Host invocation of a top-level call: the effects of a call that returns
\* Ok are committed; a call that returns an error or panics is discarded as
\* a whole and leaves the state as it was.  (A call that succeeds and writes
\* what was there already is a stuttering step as well.)
\* ------------------------------------------------------------------------
Outcome(w, r) == IF r.res = "Ok" THEN r.w ELSE w

Done(op, id, mode) == [op |-> op, id |-> id, mode |-> mode]

NoFrame == [op |-> "none"]

Invoke(r, done) ==
    /\ frame = NoFrame
    /\ r.res = "Ok"
    /\ r.w # World
    /\ Commit(r.w)
    /\ last' = done
    /\ ops < MaxOps
    /\ ops' = ops + 1
    /\ UNCHANGED <<now, frame, auxVars>>

\* No call of calculate_fee under way.
U64_MAX == 2^IntBits - 1
saturating_add(a, b) == IF a + b > U64_MAX THEN U64_MAX ELSE a + b
saturating_sub(a, b) == IF a < b THEN 0 ELSE a - b

\* ------------------------------------------------------------------------
\* program-escrow: CircuitBreaker
\* ------------------------------------------------------------------------
\* CircuitBreaker::new, with the timeout the deployment configures.
CircuitBreaker_new(t) ==
    [state |-> "Closed", failure_count |-> 0,
     failure_threshold |-> FAILURE_THRESHOLD,
     success_threshold |-> SUCCESS_THRESHOLD,
     timeout_duration |-> TimeoutDuration,
     last_failure_time |-> 0, last_state_change |-> t]

\* Mutant of record_success: a success in Closed leaves the count as it is.
record_success_KeepCount(b, t) ==
    IF b.state = "HalfOpen"
    THEN IF saturating_sub(b.failure_count, 1) = 0
         THEN [b EXCEPT !.failure_count = 0, !.state = "Closed",
                        !.last_state_change = t]
         ELSE [b EXCEPT !.failure_count = saturating_sub(b.failure_count, 1)]
    ELSE b

record_success(b, t) ==
    CASE b.state = "HalfOpen" ->
            LET count == saturating_sub(b.failure_count, 1)
            IN  IF count = 0
                THEN [b EXCEPT !.failure_count = count, !.state = "Closed",
                               !.last_state_change = t]
                ELSE [b EXCEPT !.failure_count = count]
      [] b.state = "Closed" -> [b EXCEPT !.failure_count = 0]
      [] b.state = "Open" -> [b EXCEPT !.failure_count = 0]

\* Mutant of record_failure: a failure in HalfOpen leaves the breaker HalfOpen.
record_failure_HalfOpenStays(b, t) ==
    LET b1 == [b EXCEPT !.last_failure_time = t,
                        !.failure_count = saturating_add(b.failure_count, 1)]
    IN  IF b1.state = "Closed" /\ b1.failure_count >= b1.failure_threshold
        THEN [b1 EXCEPT !.state = "Open", !.last_state_change = t]
        ELSE b1

record_failure(b, t) ==
    LET b1 == [b EXCEPT !.last_failure_time = t,
                        !.failure_count = saturating_add(b.failure_count, 1)]
    IN  CASE b1.state = "Closed" ->
                IF b1.failure_count >= b1.failure_threshold
                THEN [b1 EXCEPT !.state = "Open", !.last_state_change = t]
                ELSE b1
          [] b1.state = "HalfOpen" ->
                [b1 EXCEPT !.state = "Open", !.last_state_change = t]
          [] b1.state = "Open" -> b1

\* Mutant of is_request_allowed: the timeout has to be exceeded, not reached.
is_request_allowed_Late(b, t) ==
    IF b.state = "Open"
    THEN IF saturating_sub(t, b.last_state_change) > b.timeout_duration
         THEN [allowed |-> TRUE,
               breaker |-> [b EXCEPT !.state = "HalfOpen",
                                     !.failure_count = b.success_threshold,
                                     !.last_state_change = t]]
         ELSE [allowed |-> FALSE, breaker |-> b]
    ELSE [allowed |-> TRUE, breaker |-> b]

\* is_request_allowed: the answer, and the breaker as the call leaves it.
is_request_allowed(b, t) ==
    CASE b.state = "Closed" -> [allowed |-> TRUE, breaker |-> b]
      [] b.state = "Open" ->
            LET time_since_open == saturating_sub(t, b.last_state_change)
            IN  IF time_since_open >= b.timeout_duration
                THEN [allowed |-> TRUE,
                      breaker |-> [b EXCEPT !.state = "HalfOpen",
                                            !.failure_count = b.success_threshold,
                                            !.last_state_change = t]]
                ELSE [allowed |-> FALSE, breaker |-> b]
      [] b.state = "HalfOpen" -> [allowed |-> TRUE, breaker |-> b]

reset_circuit_breaker(b, t) ==
    [b EXCEPT !.state = "Closed", !.failure_count = 0, !.last_state_change = t]

\* The last call on the breaker: which one, what is_request_allowed answered,
\* how many failures have been recorded since the last success or reset, when
\* the breaker last entered Open, how many outcomes have been recorded, and
\* how many successes have been recorded in HalfOpen since it was entered.
NoBreakerCall ==
    [op |-> "none", allowed |-> FALSE, streak |-> 0, opened_at |-> 0, records |-> 0,
     successes |-> 0]

breakerIdle ==
    /\ breaker = CircuitBreaker_new(0)
    /\ breakerLog = NoBreakerCall

\* ------------------------------------------------------------------------
\* program-escrow: execute_with_retry
\* ------------------------------------------------------------------------
Transient == {"NetworkTimeout", "TemporaryUnavailable", "RateLimitExceeded",
              "ResourceExhausted"}

classify_error(error) ==
    IF error \in Transient THEN "Transient"
    ELSE IF error \in {"PartialBatchFailure", "AllBatchItemsFailed", "BatchSizeMismatch"}
    THEN "Partial"
    ELSE "Permanent"

\* What execute_with_retry hands back: the RetryResult, how often it invoked
\* the operation, the breaker it stored and the outcomes it recorded on it.
RetryRet(result, error, invoked, b, recorded) ==
    [result |-> result, error |-> error, invoked |-> invoked, breaker |-> b,
     recorded |-> recorded]

\* The retry loop from attempt on; outcomes[k] is what the k-th invocation of
\* the operation returns.  (The backoff delay is only emitted in an event.)
RECURSIVE retry_loop(_, _, _, _, _, _)
retry_loop(b, t, max_attempts, outcomes, attempt, last_error) ==
    IF attempt >= max_attempts
    THEN RetryRet("Failed", last_error, attempt, record_failure(b, t), <<"failure">>)
    ELSE
      LET error == outcomes[attempt + 1]
      IN  IF error = "Ok"
          THEN RetryRet("Success", "-", attempt + 1, record_success(b, t),
                        <<"success">>)
          ELSE IF classify_error(error) # "Transient"
          THEN RetryRet("Failed", error, attempt + 1, record_failure(b, t),
                        <<"failure">>)
          ELSE IF attempt + 1 >= max_attempts
          THEN RetryRet("Failed", "MaxRetriesExceeded", attempt + 1,
                        record_failure(b, t), <<"failure">>)
          ELSE retry_loop(b, t, max_attempts, outcomes, attempt + 1, error)

execute_with_retry(b, t, max_attempts, outcomes) ==
    LET c == is_request_allowed(b, t)
    IN  IF ~c.allowed
        THEN RetryRet("CircuitBreakerOpen", "-", 0, c.breaker, <<>>)
        ELSE retry_loop(c.breaker, t, max_attempts, outcomes, 0,
                        "TemporaryUnavailable")

NoRetryCall ==
    [max_attempts |-> 0, outcomes |-> <<>>, admitted |-> FALSE,
     result |-> "none", error |-> "-", invoked |-> 0, recorded |-> <<>>]

retryIdle == retryCall = NoRetryCall

\* ------------------------------------------------------------------------
\* grainlify-core: MultiSig
\* ------------------------------------------------------------------------
Range(seq) == {seq[i] : i \in 1..Len(seq)}

MsRet(code, ms) == [res |-> code, ms |-> ms]

MultiSig_init(ms, signers, threshold) ==
    IF threshold = 0 \/ threshold > Len(signers)
    THEN MsRet("InvalidThreshold", ms)
    ELSE MsRet("Ok", [ms EXCEPT !.config = Some([signers |-> signers,
                                                  threshold |-> threshold]),
                                !.counter = 0])

\* get_config and assert_signer: the panic a call of the signer meets, if any.
assert_signer(ms, signer) ==
    IF ~ms.config.some THEN "multisig not initialized"
    ELSE IF signer \notin Range(ms.config.v.signers) THEN "NotSigner"
    ELSE "Ok"

MultiSig_propose(ms, proposer) ==
    IF assert_signer(ms, proposer) # "Ok" THEN MsRet(assert_signer(ms, proposer), ms)
    ELSE
      LET counter == ms.counter + 1
          proposal == [approvals |-> <<>>, executed |-> FALSE]
      IN  MsRet("Ok", [ms EXCEPT !.proposals = Set(ms.proposals, counter, proposal),
                                  !.counter = counter])

MultiSig_approve(ms, proposal_id, signer) ==
    IF assert_signer(ms, signer) # "Ok" THEN MsRet(assert_signer(ms, signer), ms)
    ELSE IF ~Has(ms.proposals, proposal_id) THEN MsRet("ProposalNotFound", ms)
    ELSE
      LET proposal == ms.proposals[proposal_id]
      IN  IF proposal.executed THEN MsRet("AlreadyExecuted", ms)
          ELSE IF signer \in Range(proposal.approvals)
          THEN MsRet("AlreadyApproved", ms)
          ELSE MsRet("Ok", [ms EXCEPT !.proposals[proposal_id].approvals =
                                          Append(@, signer)])

\* can_execute, for a proposal that exists on a configured multisig.
MultiSig_can_execute(ms, proposal_id) ==
    /\ ~ms.proposals[proposal_id].executed
    /\ Len(ms.proposals[proposal_id].approvals) >= ms.config.v.threshold

\* Mutant of MultiSig_mark_executed: the threshold is not looked at.
MultiSig_mark_executed_NoThreshold(ms, proposal_id) ==
    IF ~Has(ms.proposals, proposal_id) THEN MsRet("ProposalNotFound", ms)
    ELSE IF ms.proposals[proposal_id].executed THEN MsRet("AlreadyExecuted", ms)
    ELSE IF ~ms.config.some THEN MsRet("multisig not initialized", ms)
    ELSE MsRet("Ok", [ms EXCEPT !.proposals[proposal_id].executed = TRUE])

MultiSig_mark_executed(ms, proposal_id) ==
    IF ~Has(ms.proposals, proposal_id) THEN MsRet("ProposalNotFound", ms)
    ELSE IF ms.proposals[proposal_id].executed THEN MsRet("AlreadyExecuted", ms)
    ELSE IF ~ms.config.some THEN MsRet("multisig not initialized", ms)
    ELSE IF ~MultiSig_can_execute(ms, proposal_id) THEN MsRet("ThresholdNotMet", ms)
    ELSE MsRet("Ok", [ms EXCEPT !.proposals[proposal_id].executed = TRUE])

NoMultiSig == [config |-> None, proposals |-> <<>>, counter |-> 0]
NoMsCall == [op |-> "none", id |-> 0, who |-> "-", steps |-> 0]

msIdle ==
    /\ multisig = NoMultiSig
    /\ msLog = NoMsCall

\* ------------------------------------------------------------------------
\* grainlify-core: GovernanceContract
\* ------------------------------------------------------------------------
GovRet(code, g) == [res |-> code, g |-> g]

GovernanceConfig(period, delay, quorum, approval, stake, scheme) ==
    [voting_period |-> period, execution_delay |-> delay,
     quorum_percentage |-> quorum, approval_threshold |-> approval,
     min_proposal_stake |-> stake, voting_scheme |-> scheme]

init_governance(g, config) ==
    IF config.quorum_percentage > 10000 \/ config.approval_threshold > 10000
    THEN GovRet("InvalidThreshold", g)
    ELSE IF config.approval_threshold < 5000 THEN GovRet("ThresholdTooLow", g)
    ELSE GovRet("Ok", [g EXCEPT !.config = Some(config), !.count = 0])

get_voting_power(voter) == STUB_VOTING_POWER

create_proposal(g, t, proposer) ==
    IF ~g.config.some THEN GovRet("NotInitialized", g)
    ELSE IF get_voting_power(proposer) < g.config.v.min_proposal_stake
    THEN GovRet("InsufficientStake", g)
    ELSE
      LET proposal_id == g.count
          proposal == [id |-> proposal_id, proposer |-> proposer,
                       created_at |-> t, voting_start |-> t,
                       voting_end |-> t + g.config.v.voting_period,
                       execution_delay |-> g.config.v.execution_delay,
                       status |-> "Active",
                       votes_for |-> 0, votes_against |-> 0, votes_abstain |-> 0,
                       total_votes |-> 0]
      IN  GovRet("Ok", [g EXCEPT !.proposals = Set(g.proposals, proposal_id, proposal),
                                  !.count = proposal_id + 1])

Tallied(proposal, vote_type, voting_power) ==
    [proposal EXCEPT
       !.votes_for = IF vote_type = "For" THEN @ + voting_power ELSE @,
       !.votes_against = IF vote_type = "Against" THEN @ + voting_power ELSE @,
       !.votes_abstain = IF vote_type = "Abstain" THEN @ + voting_power ELSE @,
       !.total_votes = @ + 1]

\* Mutant of cast_vote: a second vote of the same address is taken.
cast_vote_Again(g, t, voter, proposal_id, vote_type) ==
    IF g.proposals = <<>> THEN GovRet("ProposalsNotFound", g)
    ELSE IF ~Has(g.proposals, proposal_id) THEN GovRet("ProposalNotFound", g)
    ELSE
      LET proposal == g.proposals[proposal_id]
          voting_power ==
              IF g.config.v.voting_scheme = "OnePersonOneVote" THEN 1
              ELSE get_voting_power(voter)
          vote == [voter |-> voter, proposal_id |-> proposal_id,
                   vote_type |-> vote_type, voting_power |-> voting_power,
                   timestamp |-> t]
      IN  IF proposal.status # "Active" THEN GovRet("ProposalNotActive", g)
          ELSE IF t < proposal.voting_start THEN GovRet("VotingNotStarted", g)
          ELSE IF t > proposal.voting_end THEN GovRet("VotingEnded", g)
          ELSE GovRet("Ok",
                 [g EXCEPT !.votes = Set(g.votes, <<proposal_id, voter>>, vote),
                           !.proposals[proposal_id] =
                               Tallied(proposal, vote_type, voting_power)])

cast_vote(g, t, voter, proposal_id, vote_type) ==
    IF g.proposals = <<>> THEN GovRet("ProposalsNotFound", g)
    ELSE IF ~Has(g.proposals, proposal_id) THEN GovRet("ProposalNotFound", g)
    ELSE
      LET proposal == g.proposals[proposal_id]
          vote_key == <<proposal_id, voter>>
      IN  IF proposal.status # "Active" THEN GovRet("ProposalNotActive", g)
          ELSE IF t < proposal.voting_start THEN GovRet("VotingNotStarted", g)
          ELSE IF t > proposal.voting_end THEN GovRet("VotingEnded", g)
          ELSE IF Has(g.votes, vote_key) THEN GovRet("AlreadyVoted", g)
          ELSE IF ~g.config.some THEN GovRet("NotInitialized", g)
          ELSE
            LET voting_power ==
                  IF g.config.v.voting_scheme = "OnePersonOneVote" THEN 1
                  ELSE get_voting_power(voter)
                vote == [voter |-> voter, proposal_id |-> proposal_id,
                         vote_type |-> vote_type, voting_power |-> voting_power,
                         timestamp |-> t]
            IN  GovRet("Ok",
                  [g EXCEPT !.votes = Set(g.votes, vote_key, vote),
                            !.proposals[proposal_id] =
                                Tallied(proposal, vote_type, voting_power)])

\* Integer division of i128 values that are never negative here.
finalized_status(proposal, config) ==
    LET total_cast_votes ==
            proposal.votes_for + proposal.votes_against + proposal.votes_abstain
        quorum_met ==
            (total_cast_votes * 10000) \div TOTAL_POSSIBLE_VOTES
                >= config.quorum_percentage
        votes_cast_for_or_against == proposal.votes_for + proposal.votes_against
    IN  IF ~quorum_met THEN "Rejected"
        ELSE IF votes_cast_for_or_against = 0 THEN "Rejected"
        ELSE IF (proposal.votes_for * 10000) \div votes_cast_for_or_against
                    >= config.approval_threshold
        THEN "Approved"
        ELSE "Rejected"

finalize_proposal(g, t, proposal_id) ==
    IF g.proposals = <<>> THEN GovRet("ProposalsNotFound", g)
    ELSE IF ~Has(g.proposals, proposal_id) THEN GovRet("ProposalNotFound", g)
    ELSE
      LET proposal == g.proposals[proposal_id]
      IN  IF proposal.status # "Active" THEN GovRet("ProposalNotActive", g)
          ELSE IF t <= proposal.voting_end THEN GovRet("VotingStillActive", g)
          ELSE IF ~g.config.some THEN GovRet("NotInitialized", g)
          ELSE GovRet("Ok", [g EXCEPT !.proposals[proposal_id].status =
                                          finalized_status(proposal, g.config.v)])

\* The state in the result is the storage as the function leaves it when it
\* returns; on ProposalExpired that includes the status Expired it has set.
execute_proposal(g, t, executor, proposal_id) ==
    IF g.proposals = <<>> THEN GovRet("ProposalsNotFound", g)
    ELSE IF ~Has(g.proposals, proposal_id) THEN GovRet("ProposalNotFound", g)
    ELSE
      LET proposal == g.proposals[proposal_id]
          earliest_execution == proposal.voting_end + proposal.execution_delay
          expiration == earliest_execution + EXECUTION_WINDOW
      IN  IF proposal.status # "Approved" THEN GovRet("ProposalNotApproved", g)
          ELSE IF t < earliest_execution THEN GovRet("ExecutionDelayNotMet", g)
          ELSE IF t > expiration
          THEN GovRet("ProposalExpired",
                      [g EXCEPT !.proposals[proposal_id].status = "Expired"])
          ELSE GovRet("Ok", [g EXCEPT !.proposals[proposal_id].status = "Executed"])

\* What the host keeps of a call: the writes of a call that returns an error
\* are rolled back.
GovOutcome(g, r) == IF r.res = "Ok" THEN r.g ELSE g

NoGovernance == [config |-> None, proposals |-> <<>>, count |-> 0, votes |-> <<>>,
                 calls |-> 0]

govIdle == governance = NoGovernance

otherIdle ==
    /\ retryIdle
    /\ msIdle
    /\ govIdle

NoFeeCall == [amount |-> 0, fee_rate |-> 0, returned |-> TRUE, fee |-> 0]
feeIdle == feeCall = NoFeeCall

\* The addresses the rate limiter is asked about: lock_funds asks about the
\* depositor, init and release_funds about the admin.
RateAddrs == {Depositor, AdminAddr}
rateIdle ==
    /\ rateState = <<>>
    /\ allowedAt = [a \in RateAddrs |-> <<>>]

Init ==
    /\ admin = FALSE
    /\ paused = FALSE
    /\ adminToken = None
    /\ feeConfig = DefaultFeeConfig
    /\ escrows = <<>>
    /\ approvals = <<>>
    /\ guard = FALSE
    /\ bal = [a \in Accounts |-> IF a = Depositor THEN Mint ELSE 0]
    /\ index = <<>>
    /\ now = 0
    /\ gross = <<>>
    /\ last = Done("none", 0, "-")
    /\ frame = NoFrame
    /\ ops = 0
    /\ feeIdle
    /\ rateIdle
    /\ breakerIdle
    /\ otherIdle

Tick ==
    /\ frame = NoFrame
    /\ now < MaxTime
    /\ now' = now + 1
    /\ last' = Done("tick", 0, "-")
    /\ UNCHANGED <<storeVars, gross, frame, ops, auxVars>>

InitCall ==
    \E rl \in BOOLEAN, i \in InitInputs :
      /\ Invoke(init(World, rl, i.admin, i.token), Done("init", 0, "-"))
      /\ UNCHANGED gross

LockFunds ==
    \E rl \in BOOLEAN, i \in LockInputs :
      /\ Invoke(lock_funds(World, rl, Depositor, i.bounty_id, i.amount,
                           i.deadline, now),
                Done("lock_funds", i.bounty_id, "-"))
      /\ gross' = Set(gross, i.bounty_id, i.amount)

ReleaseFunds ==
    \E rl \in BOOLEAN, b \in BountyIds :
      /\ Invoke(release_funds(World, rl, b, Contributor, now),
                Done("release_funds", b, "-"))
      /\ UNCHANGED gross

ApproveRefund ==
    \E i \in ApproveInputs :
      /\ Invoke(approve_refund(World, i.bounty_id, i.amount, i.recipient,
                               i.mode, now),
                Done("approve_refund", i.bounty_id, i.mode))
      /\ UNCHANGED gross

Refund ==
    \E i \in RefundInputs :
      /\ Invoke(refund(World, i.bounty_id, i.amount, i.recipient, i.mode, now),
                Done("refund", i.bounty_id, i.mode))
      /\ UNCHANGED gross

RECURSIVE SetGross(_, _, _)
SetGross(g, items, i) ==
    IF i > Len(items) THEN g
    ELSE SetGross(Set(g, items[i].bounty_id, items[i].amount), items, i + 1)

BatchLockFunds ==
    \E items \in LockBatches :
      /\ Invoke(batch_lock_funds(World, items, now),
                Done("batch_lock_funds", 0, "-"))
      /\ gross' = SetGross(gross, items, 1)

BatchReleaseFunds ==
    \E items \in ReleaseBatches :
      /\ Invoke(batch_release_funds(World, items, now),
                Done("batch_release_funds", 0, "-"))
      /\ UNCHANGED gross

UpdateFeeConfig ==
    \E i \in FeeInputs :
      /\ Invoke(update_fee_config(World, i[1], i[2], i[3], i[4]),
                Done("update_fee_config", 0, "-"))
      /\ UNCHANGED gross

Pause ==
    /\ Invoke(pause(World), Done("pause", 0, "-"))
    /\ UNCHANGED gross

Unpause ==
    /\ Invoke(unpause(World), Done("unpause", 0, "-"))
    /\ UNCHANGED gross

EmergencyWithdraw ==
    /\ Invoke(emergency_withdraw(World, AdminAddr),
              Done("emergency_withdraw", 0, "-"))
    /\ UNCHANGED gross

Next ==
    \/ Tick
    \/ InitCall
    \/ LockFunds
    \/ ReleaseFunds
    \/ ApproveRefund
    \/ Refund
    \/ BatchLockFunds
    \/ BatchReleaseFunds
    \/ UpdateFeeConfig
    \/ Pause
    \/ Unpause
    \/ EmergencyWithdraw

Spec == Init /\ [][Next]_vars

\* ------------------------------------------------------------------------
\* Nested calls.  lock_funds, release_funds and refund call the token
\* contract; the token contract named at init is any contract, and during
\* token::Client::transfer it may call back into the escrow.  An outer call
\* is then suspended at its first transfer (frame), nested calls run on the
\* storage as the outer call has left it, and the outer call goes on with the
\* locals it read before.
\* ------------------------------------------------------------------------
Suspended == frame # NoFrame

Begin(p) ==
    /\ frame = NoFrame
    /\ p.res = "Transfer"
    /\ ops < MaxOps
    /\ ops' = ops + 1
    /\ Commit(p.w)
    /\ frame' = [op |-> p.loc.op, loc |-> p.loc, snap |-> World,
                 snapGross |-> gross, nested |-> 0]
    /\ UNCHANGED <<now, gross, last, auxVars>>

BeginLockFunds ==
    \E i \in LockInputs :
      Begin(lock_funds_pre(World, TRUE, Depositor, i.bounty_id, i.amount,
                           i.deadline, now))

BeginReleaseFunds ==
    \E b \in BountyIds :
      Begin(release_funds_pre(World, TRUE, b, Contributor, now))

BeginRefund ==
    \E i \in RefundInputs :
      Begin(refund_pre(World, i.bounty_id, i.amount, i.recipient, i.mode, now))

\* The invocation unwinds as a whole: the host restores what it found.
Unwind ==
    /\ Commit(frame.snap)
    /\ gross' = frame.snapGross
    /\ frame' = NoFrame
    /\ UNCHANGED <<now, last, ops, auxVars>>

\* A nested call: its writes stay when it returns Ok, the invocation unwinds
\* when it panics on the guard, and an Err is handed to the callback.
Nested(r, g) ==
    /\ Suspended
    /\ frame.nested < MaxNested
    /\ \/ /\ r.res = "Ok"
          /\ Commit(r.w)
          /\ gross' = g
          /\ frame' = [frame EXCEPT !.nested = @ + 1]
          /\ UNCHANGED <<now, last, ops, auxVars>>
       \/ /\ r.res = "Reentrancy"
          /\ Unwind

NestedLockFunds ==
    \E i \in LockInputs :
      Nested(lock_funds(World, TRUE, Depositor, i.bounty_id, i.amount,
                        i.deadline, now),
             Set(gross, i.bounty_id, i.amount))

NestedReleaseFunds ==
    \E b \in BountyIds :
      Nested(release_funds(World, TRUE, b, Contributor, now), gross)

NestedRefund ==
    \E i \in RefundInputs :
      Nested(refund(World, i.bounty_id, i.amount, i.recipient, i.mode, now),
             gross)

NestedBatchLockFunds ==
    \E items \in LockBatches :
      Nested(batch_lock_funds(World, items, now), SetGross(gross, items, 1))

NestedBatchReleaseFunds ==
    \E items \in ReleaseBatches :
      Nested(batch_release_funds(World, items, now), gross)

\* The transfer returns and the outer call runs to its end.
Resume(loc) ==
    IF loc.op = "lock_funds" THEN lock_funds_post(World, loc, now)
    ELSE IF loc.op = "release_funds" THEN release_funds_post(World, loc, now)
    ELSE refund_post(World, loc, now)

Complete ==
    /\ Suspended
    /\ LET r == Resume(frame.loc)
       IN  \/ /\ r.res = "Ok"
              /\ Commit(r.w)
              /\ gross' = IF frame.op = "lock_funds"
                          THEN Set(gross, frame.loc.bounty_id, frame.loc.amount)
                          ELSE gross
              /\ last' = Done(frame.op, frame.loc.bounty_id, "-")
              /\ frame' = NoFrame
              /\ UNCHANGED <<now, ops, auxVars>>
           \/ /\ r.res # "Ok"
              /\ Unwind

NextReentrant ==
    \/ InitCall
    \/ LockFunds
    \/ ApproveRefund
    \/ BeginLockFunds
    \/ BeginReleaseFunds
    \/ BeginRefund
    \/ NestedLockFunds
    \/ NestedReleaseFunds
    \/ NestedRefund
    \/ NestedBatchLockFunds
    \/ NestedBatchReleaseFunds
    \/ Complete

SpecReentrant == Init /\ [][NextReentrant]_vars

\* ------------------------------------------------------------------------
\* C3: while a lock_funds, release_funds or refund call stands in its token
\* transfer, the reentrancy flag is set, and every nested call of lock_funds,
\* release_funds, refund, batch_lock_funds or batch_release_funds is aborted
\* on the flag.
\* ------------------------------------------------------------------------
C3_NestedCallAborted ==
    Suspended =>
        /\ guard
        /\ \A i \in LockInputs :
             lock_funds(World, TRUE, Depositor, i.bounty_id, i.amount,
                        i.deadline, now).res = "Reentrancy"
        /\ \A b \in BountyIds :
             release_funds(World, TRUE, b, Contributor, now).res = "Reentrancy"
        /\ \A i \in RefundInputs :
             refund(World, i.bounty_id, i.amount, i.recipient, i.mode,
                    now).res = "Reentrancy"
        /\ \A items \in LockBatches :
             batch_lock_funds(World, items, now).res = "Reentrancy"
        /\ \A items \in ReleaseBatches :
             batch_release_funds(World, items, now).res = "Reentrancy"

\* ========================================================================
\* Properties
\* ========================================================================
Terminal(status) == status = "Released" \/ status = "Refunded"

StatusChanges ==
    { <<"Locked", "Released">>, <<"Locked", "PartiallyRefunded">>,
      <<"Locked", "Refunded">>, <<"PartiallyRefunded", "PartiallyRefunded">>,
      <<"PartiallyRefunded", "Refunded">> }

C2_StatusMonotone ==
    [][\A b \in DOMAIN escrows :
          /\ b \in DOMAIN escrows'
          /\ \/ escrows'[b].status = escrows[b].status
             \/ <<escrows[b].status, escrows'[b].status>> \in StatusChanges]_vars

C2_Witness ==
    \E b \in DOMAIN escrows :
        /\ escrows[b].status = "Refunded"
        /\ Len(escrows[b].refund_history) = 2
        /\ \E c \in DOMAIN escrows : escrows[c].status = "Released"

\* ------------------------------------------------------------------------
\* C4 (as stated): at every time now >= deadline, on an unpaused contract, a
\* Full refund, and a Partial refund of any amount in (0, remaining_amount],
\* of an escrow in status Locked or PartiallyRefunded succeeds, whatever the
\* fee configuration at the time of the lock.
\* ------------------------------------------------------------------------
C4_RefundSucceedsAfterDeadline ==
    \A b \in DOMAIN escrows :
        (Refundable(escrows[b].status) /\ now >= escrows[b].deadline /\ ~paused)
        => /\ refund(World, b, None, None, "Full", now).res = "Ok"
           /\ \A a \in 1..escrows[b].remaining_amount :
                  refund(World, b, Some(a), None, "Partial", now).res = "Ok"

\* ------------------------------------------------------------------------
\* C5 (as stated): batch_lock_funds rejects every batch that has an item whose
\* deadline is not later than the ledger time, creating no escrow and moving
\* no tokens.
\* ------------------------------------------------------------------------
HasStaleDeadline(items, t) == \E i \in 1..Len(items) : items[i].deadline <= t

C5_BatchLockRejectsStaleDeadline ==
    \A items \in LockBatches :
        HasStaleDeadline(items, now)
        => LET r == batch_lock_funds(World, items, now)
           IN  /\ r.res # "Ok"
               /\ Outcome(World, r).escrows = escrows
               /\ Outcome(World, r).bal = bal

\* ------------------------------------------------------------------------
\* C6 (as stated): every escrow whose status is Released has
\* remaining_amount = 0.
\* ------------------------------------------------------------------------
C6_ReleasedHasNothingLeft ==
    \A b \in DOMAIN escrows :
        escrows[b].status = "Released" => escrows[b].remaining_amount = 0

\* ------------------------------------------------------------------------
\* C7: on an unpaused contract and for an escrow in status Locked or
\* PartiallyRefunded, before the deadline, a Custom refund (amount and
\* recipient supplied) succeeds only if the stored approval of the bounty has
\* that amount, that recipient and mode Custom, and fails with
\* RefundNotApproved when there is no such approval.  A successful one leaves
\* no approval, and the same call made again right after it fails (with
\* RefundNotApproved while the escrow can still be refunded), unless
\* approve_refund has approved it again.
\* ------------------------------------------------------------------------
HasMatchingApproval(w, b, a, rc) ==
    /\ Has(w.approvals, b)
    /\ w.approvals[b].amount = a
    /\ w.approvals[b].recipient = rc
    /\ w.approvals[b].mode = "Custom"

C7_CustomRefundNeedsApproval ==
    \A b \in DOMAIN escrows :
        (Refundable(escrows[b].status) /\ now < escrows[b].deadline /\ ~paused)
        => \A a \in RefundAmounts, rc \in Recipients :
             LET r == refund(World, b, Some(a), Some(rc), "Custom", now)
                 again == refund(r.w, b, Some(a), Some(rc), "Custom", now)
                 approved == approve_refund(r.w, b, a, rc, "Custom", now)
                 retry == refund(approved.w, b, Some(a), Some(rc), "Custom", now)
             IN  /\ r.res = "Ok" => HasMatchingApproval(World, b, a, rc)
                 /\ ~HasMatchingApproval(World, b, a, rc)
                        => r.res = "RefundNotApproved"
                 /\ r.res = "Ok"
                        => /\ ~Has(r.w.approvals, b)
                           /\ again.res # "Ok"
                           /\ Refundable(r.w.escrows[b].status)
                                  => again.res = "RefundNotApproved"
                           /\ approved.res = "Ok"
                                  => retry.res # "RefundNotApproved"

C7_Witness ==
    \E b \in DOMAIN escrows :
        /\ last = Done("refund", b, "Custom")
        /\ now < escrows[b].deadline
        /\ escrows[b].status = "PartiallyRefunded"
        /\ ~Has(approvals, b)
        /\ refund(World, b, Some(PartAmount), Some(Contributor), "Custom", now).res
              = "RefundNotApproved"

\* ------------------------------------------------------------------------
\* C8 (as stated): a successful Custom refund whose amount, recipient and mode
\* match the stored approval of the bounty leaves no approval for the bounty,
\* before and after the deadline alike.
\* ------------------------------------------------------------------------
C8_MatchingRefundConsumesApproval ==
    \A b \in DOMAIN escrows, a \in RefundAmounts, rc \in Recipients :
        LET r == refund(World, b, Some(a), Some(rc), "Custom", now)
        IN  (HasMatchingApproval(World, b, a, rc) /\ r.res = "Ok")
            => ~Has(r.w.approvals, b)

\* C8 (amended): a successful Custom refund made before the deadline, whose
\* amount, recipient and mode match the stored approval of the bounty, leaves
\* no approval for the bounty.  (At or after the deadline the approval is not
\* looked at and stays.)
C8_MatchingRefundConsumesApprovalBeforeDeadline ==
    \A b \in DOMAIN escrows, a \in RefundAmounts, rc \in Recipients :
        LET r == refund(World, b, Some(a), Some(rc), "Custom", now)
        IN  (HasMatchingApproval(World, b, a, rc) /\ r.res = "Ok")
            => IF now < escrows[b].deadline
               THEN ~Has(r.w.approvals, b)
               ELSE r.w.approvals = approvals

C8_Witness ==
    \E b \in DOMAIN escrows :
        /\ last = Done("refund", b, "Custom")
        /\ now < escrows[b].deadline
        /\ escrows[b].status = "Refunded"
        /\ escrows[b].refund_history[Len(escrows[b].refund_history)].recipient
              = Contributor
        /\ ~Has(approvals, b)

\* ------------------------------------------------------------------------
\* C9: a lock_funds or batch_lock_funds call that names a bounty id whose
\* escrow record exists fails and no lock call changes an existing record; the
\* error is BountyExists when nothing checked earlier fails (the rate limiter
\* allows the depositor, the contract is not paused, the amount is positive,
\* the deadline of a lock_funds is in the future, the batch has no item with a
\* non-positive amount or a repeated id).
\* ------------------------------------------------------------------------
Names(items, b) == \E i \in 1..Len(items) : items[i].bounty_id = b

PlainItems(items) ==
    \A i \in 1..Len(items) :
        items[i].amount > 0 /\ CountId(items, items[i].bounty_id) = 1

KeepsRecords(r) ==
    \A b \in DOMAIN escrows : Has(r.w.escrows, b) /\ r.w.escrows[b] = escrows[b]

C9_LockNeverReplaces ==
    /\ \A rl \in BOOLEAN, i \in LockInputs :
          LET r == lock_funds(World, rl, Depositor, i.bounty_id, i.amount,
                              i.deadline, now)
          IN  /\ KeepsRecords(r)
              /\ Has(escrows, i.bounty_id)
                    => /\ r.res # "Ok"
                       /\ (rl /\ ~paused /\ i.amount > 0 /\ i.deadline > now)
                              => r.res = "BountyExists"
    /\ \A items \in LockBatches :
          LET r == batch_lock_funds(World, items, now)
          IN  /\ KeepsRecords(r)
              /\ (\E b \in DOMAIN escrows : Names(items, b))
                    => /\ r.res # "Ok"
                       /\ (~paused /\ PlainItems(items)) => r.res = "BountyExists"

C9_Witness ==
    \E b \in DOMAIN escrows :
        /\ last = Done("release_funds", b, "-")
        /\ escrows[b].status = "Released"
        /\ lock_funds(World, TRUE, Depositor, b, MaxAmount, Deadline, now).res
              = "BountyExists"
        /\ \E c \in BountyIds \ DOMAIN escrows :
              batch_lock_funds(World,
                  << [bounty_id |-> c, depositor |-> Depositor,
                      amount |-> MaxAmount, deadline |-> Deadline],
                     [bounty_id |-> b, depositor |-> Depositor,
                      amount |-> MaxAmount, deadline |-> Deadline] >>, now).res
                  = "BountyExists"

\* ------------------------------------------------------------------------
\* C10: once an escrow is Released or Refunded, every release_funds,
\* batch_release_funds and refund call on its bounty id fails and changes
\* neither an escrow record nor a token balance; on an unpaused contract the
\* error is FundsNotLocked (for release_funds when the rate limiter allows the
\* admin, for a batch when no other item of the batch fails first).
\* ------------------------------------------------------------------------
Untouched(r) == r.w.escrows = escrows /\ r.w.bal = bal

OthersReleasable(items, b) ==
    \A i \in 1..Len(items) :
        items[i].bounty_id # b
        => /\ Has(escrows, items[i].bounty_id)
           /\ Releasable(escrows[items[i].bounty_id].status)
           /\ CountId(items, items[i].bounty_id) = 1

C10_TerminalIsFinal ==
    \A b \in DOMAIN escrows :
        Terminal(escrows[b].status)
        => /\ \A rl \in BOOLEAN :
                LET r == release_funds(World, rl, b, Contributor, now)
                IN  /\ r.res # "Ok"
                    /\ Untouched(r)
                    /\ (rl /\ ~paused) => r.res = "FundsNotLocked"
           /\ \A i \in RefundInputs :
                i.bounty_id = b
                => LET r == refund(World, b, i.amount, i.recipient, i.mode, now)
                   IN  /\ r.res # "Ok"
                       /\ Untouched(r)
                       /\ ~paused => r.res = "FundsNotLocked"
           /\ \A items \in ReleaseBatches :
                Names(items, b)
                => LET r == batch_release_funds(World, items, now)
                   IN  /\ r.res # "Ok"
                       /\ Untouched(r)
                       /\ (~paused /\ OthersReleasable(items, b))
                              => r.res = "FundsNotLocked"

C10_Witness ==
    \E b \in DOMAIN escrows, c \in DOMAIN escrows :
        /\ escrows[b].status = "Refunded"
        /\ escrows[c].status = "Released"
        /\ ~paused
        /\ last = Done("refund", b, "Full")
        /\ release_funds(World, TRUE, b, Contributor, now).res = "FundsNotLocked"
        /\ refund(World, c, None, None, "Full", now).res = "FundsNotLocked"

\* ------------------------------------------------------------------------
\* C11: a batch_lock_funds call in which some item has amount <= 0, names an
\* id that exists, or repeats the id of another item of the batch, returns an
\* error (no panic), and up to its return it has created no escrow and moved
\* no tokens, also when valid items precede the invalid one.
\* ------------------------------------------------------------------------
Errors ==
    {"AlreadyInitialized", "NotInitialized", "BountyExists", "BountyNotFound",
     "FundsNotLocked", "DeadlineNotPassed", "Unauthorized", "InvalidFeeRate",
     "InvalidAmount", "InvalidDeadline", "InsufficientFunds", "RefundNotApproved",
     "InvalidBatchSize", "DuplicateBountyId", "ContractPaused"}

InvalidLockItem(items, i) ==
    \/ items[i].amount <= 0
    \/ Has(escrows, items[i].bounty_id)
    \/ CountId(items, items[i].bounty_id) > 1

C11_BatchLockAllOrNothing ==
    \A items \in LockBatches :
        (\E i \in 1..Len(items) : InvalidLockItem(items, i)) =>
            LET r == batch_lock_funds(World, items, now)
            IN  /\ r.res \in Errors
                /\ r.w.escrows = escrows
                /\ r.w.bal = bal
                /\ Outcome(World, r) = World

\* A two-item batch whose first item alone would be locked and whose second
\* item is invalid, on an initialized contract that is not paused.
C11_Witness ==
    /\ admin /\ ~paused
    /\ \E items \in LockBatches :
          /\ Len(items) = 2
          /\ batch_lock_funds(World, <<items[1]>>, now).res = "Ok"
          /\ ~InvalidLockItem(items, 1)
          /\ InvalidLockItem(items, 2)
          /\ Has(escrows, items[2].bounty_id)
          /\ batch_lock_funds(World, items, now).res = "BountyExists"

\* ------------------------------------------------------------------------
\* C12: a batch_release_funds call in which some item names a bounty that
\* does not exist, is not Locked, or is repeated in the batch, returns an
\* error (no panic), and up to its return it has moved no tokens and changed
\* no escrow.
\* ------------------------------------------------------------------------
InvalidReleaseItem(items, i) ==
    \/ ~Has(escrows, items[i].bounty_id)
    \/ (Has(escrows, items[i].bounty_id)
           /\ escrows[items[i].bounty_id].status # "Locked")
    \/ CountId(items, items[i].bounty_id) > 1

C12_BatchReleaseAllOrNothing ==
    \A items \in ReleaseBatches :
        (\E i \in 1..Len(items) : InvalidReleaseItem(items, i)) =>
            LET r == batch_release_funds(World, items, now)
            IN  /\ r.res \in Errors
                /\ r.w.escrows = escrows
                /\ r.w.bal = bal
                /\ Outcome(World, r) = World

\* A two-item batch whose first item alone would be released and whose second
\* item names an escrow that is no longer Locked.
C12_Witness ==
    /\ admin /\ ~paused
    /\ \E items \in ReleaseBatches :
          /\ Len(items) = 2
          /\ batch_release_funds(World, <<items[1]>>, now).res = "Ok"
          /\ Has(escrows, items[2].bounty_id)
          /\ escrows[items[2].bounty_id].status # "Locked"
          /\ batch_release_funds(World, items, now).res = "FundsNotLocked"

\* ------------------------------------------------------------------------
\* C13: every escrow has 0 <= remaining_amount <= the gross amount locked; a
\* Refunded escrow has remaining_amount = 0 and a PartiallyRefunded escrow has
\* 0 < remaining_amount < the gross amount locked.
\* ------------------------------------------------------------------------
C13_RemainingWithinGross ==
    \A b \in DOMAIN escrows :
        LET e == escrows[b]
        IN  /\ Has(gross, b)
            /\ 0 <= e.remaining_amount
            /\ e.remaining_amount <= gross[b]
            /\ e.status = "Refunded" => e.remaining_amount = 0
            /\ e.status = "PartiallyRefunded" =>
                   0 < e.remaining_amount /\ e.remaining_amount < gross[b]

\* One escrow refunded in part and one refunded in full, both by refund.
C13_Witness ==
    /\ last.op = "refund"
    /\ \E b \in DOMAIN escrows : escrows[b].status = "PartiallyRefunded"
    /\ \E b \in DOMAIN escrows :
          /\ escrows[b].status = "Refunded"
          /\ Len(escrows[b].refund_history) > 0

\* ------------------------------------------------------------------------
\* C14: on a contract that is not paused, for every escrow in status Locked
\* or PartiallyRefunded and at every time before its deadline, a refund in
\* mode Full or Partial (any amount, any recipient argument) fails with
\* DeadlineNotPassed; paused or not, the call changes neither an escrow
\* record, nor an approval, nor a token balance.
\* ------------------------------------------------------------------------
EarlyRefundInputs ==
    [bounty_id : BountyIds, amount : OptionOf(RefundAmounts),
     recipient : OptionOf(Recipients), mode : {"Full", "Partial"}]

C14_EarlyRefundRejected ==
    \A i \in EarlyRefundInputs :
        (/\ Has(escrows, i.bounty_id)
         /\ Refundable(escrows[i.bounty_id].status)
         /\ now < escrows[i.bounty_id].deadline) =>
            LET r == refund(World, i.bounty_id, i.amount, i.recipient, i.mode, now)
            IN  /\ ~paused => r.res = "DeadlineNotPassed"
                /\ paused => r.res = "ContractPaused"
                /\ r.w.escrows = escrows
                /\ r.w.approvals = approvals
                /\ r.w.bal = bal

\* Before the deadline of a PartiallyRefunded escrow whose remainder the
\* contract holds, on a contract that is not paused.
C14_Witness ==
    /\ ~paused
    /\ \E b \in DOMAIN escrows :
          /\ escrows[b].status = "PartiallyRefunded"
          /\ now < escrows[b].deadline
          /\ bal[Custody] >= escrows[b].remaining_amount
          /\ refund(World, b, None, None, "Full", now).res = "DeadlineNotPassed"

\* ------------------------------------------------------------------------
\* C15: between top-level calls the ReentrancyGuard flag is absent: every
\* entry point that returns Ok or an error has removed it by its return, and
\* what a panicking call wrote is discarded with the call, so no call finds
\* the flag left by an earlier one.
\* ------------------------------------------------------------------------
EntryPointResults ==
    {init(World, rl[1], rl[2].admin, rl[2].token) : rl \in BOOLEAN \X InitArgs}
    \cup {lock_funds(World, rl[1], Depositor, rl[2].bounty_id, rl[2].amount,
                     rl[2].deadline, now) : rl \in BOOLEAN \X LockInputs}
    \cup {release_funds(World, rl[1], rl[2], Contributor, now) :
                rl \in BOOLEAN \X BountyIds}
    \cup {approve_refund(World, i.bounty_id, i.amount, i.recipient, i.mode, now) :
                i \in ApproveInputs}
    \cup {refund(World, i.bounty_id, i.amount, i.recipient, i.mode, now) :
                i \in RefundInputs}
    \cup {batch_lock_funds(World, items, now) : items \in LockBatches}
    \cup {batch_release_funds(World, items, now) : items \in ReleaseBatches}
    \cup {update_fee_config(World, i[1], i[2], i[3], i[4]) : i \in FeeInputs}
    \cup {pause(World), unpause(World), emergency_withdraw(World, AdminAddr)}

C15_GuardAbsentBetweenCalls ==
    /\ ~guard
    /\ \A r \in EntryPointResults :
          /\ r.res \in Errors \cup {"Ok"} => ~r.w.guard
          /\ ~Outcome(World, r).guard
          /\ r.res # "Reentrancy"

\* A release_funds call has just succeeded, and a lock_funds call made now
\* fails after it has set the flag.
C15_Witness ==
    /\ last.op = "release_funds"
    /\ \E i \in LockInputs :
          lock_funds(World, TRUE, Depositor, i.bounty_id, i.amount, i.deadline,
                     now).res = "BountyExists"

\* ------------------------------------------------------------------------
\* C16: a successful lock_funds(depositor, bounty_id, amount, deadline), with
\* f = floor(amount * lock_fee_rate / 10000) when fees are enabled and f = 0
\* otherwise, takes amount from the depositor, gives amount - f to custody and
\* f to the fee recipient, and creates an escrow with status Locked, amount
\* field amount - f, remaining_amount = amount, an empty refund_history and
\* the given depositor and deadline; nothing else changes.
\* ------------------------------------------------------------------------
ExpectedFee(enabled, amount, rate) ==
    IF enabled THEN (amount * rate) \div 10000 ELSE 0

\* The ledger b after `from` has paid net to `to` and fee to `recipient`.
Paid(b, from, to, net, recipient, fee) ==
    [a \in DOMAIN b |->
        b[a] - (IF a = from THEN net + fee ELSE 0)
             + (IF a = to THEN net ELSE 0)
             + (IF a = recipient THEN fee ELSE 0)]

FundCallResults ==
    {lock_funds(World, TRUE, Depositor, i.bounty_id, i.amount, i.deadline, now) :
        i \in LockInputs}
    \cup {release_funds(World, TRUE, b, Contributor, now) : b \in BountyIds}
    \cup {refund(World, i.bounty_id, i.amount, i.recipient, i.mode, now) :
                i \in RefundInputs}

BatchCallResults ==
    {batch_lock_funds(World, items, now) : items \in LockBatches}
    \cup {batch_release_funds(World, items, now) : items \in ReleaseBatches}

AdminCallResults ==
    {init(World, TRUE, i.admin, i.token) : i \in InitArgs}
    \cup {approve_refund(World, i.bounty_id, i.amount, i.recipient, i.mode, now) :
                i \in ApproveInputs}
    \cup {update_fee_config(World, i[1], i[2], i[3], i[4]) : i \in FeeInputs}
    \cup {emergency_withdraw(World, rc) : rc \in Accounts \ {Custody}}

NoFundsChange(r) == r.w.escrows = escrows /\ r.w.bal = bal

\* pause and unpause set the flag and are idempotent, is_paused reads the flag,
\* and no other entry point writes it.
PauseSwitch ==
    /\ admin =>
          /\ pause(World).res = "Ok" /\ unpause(World).res = "Ok"
          /\ is_paused(pause(World).w) /\ ~is_paused(unpause(World).w)
          /\ pause(pause(World).w) = pause(World)
          /\ unpause(unpause(World).w) = unpause(World)
    /\ last.op = "pause" => is_paused(World)
    /\ last.op = "unpause" => ~is_paused(World)
    /\ \A r \in FundCallResults \cup BatchCallResults \cup AdminCallResults :
          is_paused(r.w) = is_paused(World)

C18_PausedBlocksEveryCall ==
    /\ PauseSwitch
    /\ paused =>
          /\ \A r \in FundCallResults :
                r.res = "ContractPaused" /\ NoFundsChange(r)
          /\ \A items \in LockBatches :
                LET r == batch_lock_funds(World, items, now)
                IN  r.res = "ContractPaused" /\ NoFundsChange(r)
          /\ \A items \in ReleaseBatches :
                LET r == batch_release_funds(World, items, now)
                IN  r.res = "ContractPaused" /\ NoFundsChange(r)

\* C18 (amended): as stated, for batches of 1 to MAX_BATCH_SIZE items; a
\* batch_lock_funds or batch_release_funds call with an empty batch fails with
\* InvalidBatchSize, paused or not, and changes nothing either.
C18_PausedBlocksEveryCallButBadSize ==
    /\ PauseSwitch
    /\ paused =>
          /\ \A r \in FundCallResults :
                r.res = "ContractPaused" /\ NoFundsChange(r)
          /\ \A items \in LockBatches :
                LET r == batch_lock_funds(World, items, now)
                IN  /\ r.res = IF Len(items) = 0 THEN "InvalidBatchSize"
                               ELSE "ContractPaused"
                    /\ NoFundsChange(r)
          /\ \A items \in ReleaseBatches :
                LET r == batch_release_funds(World, items, now)
                IN  /\ r.res = IF Len(items) = 0 THEN "InvalidBatchSize"
                               ELSE "ContractPaused"
                    /\ NoFundsChange(r)

\* pause has just been called on a contract that holds a Locked escrow which
\* release_funds, batch_release_funds and refund would serve if it were not
\* paused.
C18_Witness ==
    /\ paused /\ last.op = "pause"
    /\ LET open == [World EXCEPT !.paused = FALSE]
       IN  \E b \in DOMAIN escrows :
             /\ escrows[b].status = "Locked"
             /\ release_funds(open, TRUE, b, Contributor, now).res = "Ok"
             /\ refund(open, b, None, None, "Full", now).res = "Ok"
             /\ batch_release_funds(
                    open, <<[bounty_id |-> b, contributor |-> Contributor]>>,
                    now).res = "Ok"

\* ------------------------------------------------------------------------
\* C19: emergency_withdraw moves funds only while the contract is paused:
\* called while it is not paused it returns an error and changes no balance;
\* called by the admin while it is paused it succeeds and moves the whole
\* custody balance to the recipient, all other balances and every escrow
\* record staying as they were.
\* ------------------------------------------------------------------------
C19_EmergencyWithdrawOnlyPaused ==
    \A rc \in Accounts \ {Custody} :
        LET r == emergency_withdraw(World, rc)
        IN  /\ ~paused => r.res \in Errors /\ r.w.bal = bal
            /\ paused =>
                  /\ r.res = "Ok"
                  /\ r.w.bal = Paid(bal, Custody, rc, bal[Custody], rc, 0)
                  /\ r.w.bal[Custody] = 0
                  /\ r.w.escrows = escrows

\* emergency_withdraw has just emptied a custody that held locked funds.
C19_Witness ==
    /\ last.op = "emergency_withdraw"
    /\ paused
    /\ bal[Custody] = 0
    /\ bal[AdminAddr] > 0
    /\ \E b \in DOMAIN escrows : escrows[b].status = "Locked"

\* ------------------------------------------------------------------------
\* C20: once init has succeeded, every later init call the rate limiter
\* allows, with the same or other admin and token arguments, fails with
\* AlreadyInitialized and leaves the stored admin, token and fee
\* configuration (and all other storage) as they were.
\* ------------------------------------------------------------------------
C20_InitOnlyOnce ==
    /\ admin <=> adminToken # None
    /\ admin =>
          \A i \in InitArgs :
              LET r == init(World, TRUE, i.admin, i.token)
              IN  /\ r.res = "AlreadyInitialized"
                  /\ r.w.adminToken = adminToken
                  /\ r.w.feeConfig = feeConfig
                  /\ r.w = World
    /\ admin => adminToken = Some([admin |-> AdminAddr, token |-> Token])

\* init has succeeded and the fee configuration has been changed since.
C20_Witness ==
    /\ admin
    /\ adminToken = Some([admin |-> AdminAddr, token |-> Token])
    /\ feeConfig.fee_enabled
    /\ feeConfig.fee_recipient # AdminAddr
    /\ init(World, TRUE, Contributor, "other").res = "AlreadyInitialized"

\* ========================================================================
\* The fee engine on its own: one call of calculate_fee
\* ========================================================================
\* Amounts over the whole range of the integer type, around the amount
\* IntBits lets a MAX_FEE_RATE product fit, and below zero; the rates are
\* those a FeeConfig can hold.
MaxFitting == I128_MAX \div MAX_FEE_RATE
FeeAmounts ==
    {0, 1, 9, 10, 19, 20, 25, MaxFitting - 1, MaxFitting, MaxFitting + 1,
     2 * MaxFitting, I128_MAX - 1, I128_MAX}
    \cup {-1, -15, -(MaxFitting + 1), I128_MIN}
FeeRates == {0, 1, 499, 500, 999, MAX_FEE_RATE}

escrowIdle ==
    /\ admin = FALSE
    /\ adminToken = None
    /\ paused = FALSE
    /\ feeConfig = DefaultFeeConfig
    /\ escrows = <<>>
    /\ approvals = <<>>
    /\ guard = FALSE
    /\ bal = [a \in Accounts |-> IF a = Depositor THEN Mint ELSE 0]
    /\ index = <<>>
    /\ now = 0
    /\ gross = <<>>
    /\ last = Done("none", 0, "-")
    /\ frame = NoFrame
    /\ ops = 0

escrowVars ==
    <<admin, adminToken, paused, feeConfig, escrows, approvals, guard, bal, index,
      now, gross, last, frame, ops>>

InitFee ==
    /\ escrowIdle
    /\ rateIdle
    /\ breakerIdle
    /\ otherIdle
    /\ \E a \in FeeAmounts, rate \in FeeRates :
          feeCall = [amount |-> a, fee_rate |-> rate, returned |-> FALSE,
                     fee |-> 0]

CalculateFee ==
    /\ ~feeCall.returned
    /\ feeCall' = [feeCall EXCEPT
                     !.returned = TRUE,
                     !.fee = calculate_fee(feeCall.amount, feeCall.fee_rate)]
    /\ UNCHANGED <<escrowVars, rateVars, breakerVars, otherVars>>

NextFee == CalculateFee

SpecFee == InitFee /\ [][NextFee]_vars

\* ------------------------------------------------------------------------
\* C21: for the rates a FeeConfig can hold (0 to MAX_FEE_RATE),
\* calculate_fee(amount, rate) returns 0 when rate = 0, returns
\* floor(amount * rate / 10000) when amount >= 0 and amount * rate fits in the
\* integer type, and returns 0 when amount * rate does not fit.
\* ------------------------------------------------------------------------
Fits(x) == I128_MIN <= x /\ x <= I128_MAX

C21_CalculateFee ==
    feeCall.returned =>
        LET a == feeCall.amount
            rate == feeCall.fee_rate
        IN  /\ rate = 0 => feeCall.fee = 0
            /\ (rate # 0 /\ a >= 0 /\ Fits(a * rate)) =>
                   feeCall.fee = (a * rate) \div 10000
            /\ (rate # 0 /\ ~Fits(a * rate)) => feeCall.fee = 0

\* A call has returned 0 because the product did not fit, for an amount whose
\* fee would have been positive.
C21_Witness ==
    /\ feeCall.returned
    /\ feeCall.fee_rate = MAX_FEE_RATE
    /\ feeCall.amount = MaxFitting + 1
    /\ ~Fits(feeCall.amount * feeCall.fee_rate)
    /\ feeCall.fee = 0

\* ------------------------------------------------------------------------
\* Fee configuration updates
\* ------------------------------------------------------------------------
FeeRateArgs == {None, Some(0), Some(MAX_FEE_RATE), Some(MAX_FEE_RATE + 1), Some(0 - 1)}

BadFeeInputs ==
    { i \in FeeRateArgs \X FeeRateArgs \X OptionOf({AdminAddr, FeeAddr}) \X OptionOf(BOOLEAN) :
        \/ i[1].some /\ ~(0 <= i[1].v /\ i[1].v <= 1000)
        \/ i[2].some /\ ~(0 <= i[2].v /\ i[2].v <= 1000) }

\* C22: the stored fee configuration always has both rates in [0, 1000]; on
\* an initialized contract an update_fee_config call in which a supplied
\* rate is outside [0, 1000] fails with InvalidFeeRate and leaves the whole
\* stored configuration as it was, whatever the other arguments are.
C22_FeeRatesInRange ==
    /\ 0 <= feeConfig.lock_fee_rate /\ feeConfig.lock_fee_rate <= 1000
    /\ 0 <= feeConfig.release_fee_rate /\ feeConfig.release_fee_rate <= 1000
    /\ admin =>
         \A i \in BadFeeInputs :
           LET r == update_fee_config(World, i[1], i[2], i[3], i[4])
           IN  /\ r.res = "InvalidFeeRate"
               /\ Outcome(World, r).feeConfig = feeConfig

C22_Witness ==
    /\ admin
    /\ feeConfig.lock_fee_rate = MAX_FEE_RATE
    /\ feeConfig.fee_recipient = FeeAddr
    /\ last.op = "update_fee_config"
    /\ update_fee_config(World, Some(0), Some(MAX_FEE_RATE + 1), Some(AdminAddr),
                         Some(FALSE)).res = "InvalidFeeRate"

\* ------------------------------------------------------------------------
\* approve_refund
\* ------------------------------------------------------------------------
ApproveArgs ==
    [bounty_id : BountyIds, amount : {0 - 1, 0, 1, PartAmount, MaxAmount, MaxAmount + 1},
     recipient : Recipients, mode : RefundModes]

\* C23: on an initialized contract approve_refund fails with BountyNotFound
\* when the bounty has no escrow, else with FundsNotLocked when the escrow is
\* neither Locked nor PartiallyRefunded, else with InvalidAmount unless
\* 0 < amount <= remaining_amount, and succeeds otherwise; a success stores
\* the new approval in place of whatever approval the bounty had, and changes
\* no other approval, no escrow record and no token balance.
C23_ApproveRefundEffect ==
    admin =>
      \A i \in ApproveArgs :
        LET r == approve_refund(World, i.bounty_id, i.amount, i.recipient, i.mode, now)
            b == i.bounty_id
        IN  /\ ~(b \in DOMAIN escrows) => r.res = "BountyNotFound"
            /\ (b \in DOMAIN escrows /\ escrows[b].status \notin {"Locked", "PartiallyRefunded"})
                 => r.res = "FundsNotLocked"
            /\ (/\ b \in DOMAIN escrows
                /\ escrows[b].status \in {"Locked", "PartiallyRefunded"}
                /\ (i.amount <= 0 \/ i.amount > escrows[b].remaining_amount))
                 => r.res = "InvalidAmount"
            /\ (/\ b \in DOMAIN escrows
                /\ escrows[b].status \in {"Locked", "PartiallyRefunded"}
                /\ 0 < i.amount /\ i.amount <= escrows[b].remaining_amount)
                 => /\ r.res = "Ok"
                    /\ b \in DOMAIN r.w.approvals
                    /\ r.w.approvals[b].amount = i.amount
                    /\ r.w.approvals[b].recipient = i.recipient
                    /\ r.w.approvals[b].mode = i.mode
                    /\ DOMAIN r.w.approvals = DOMAIN approvals \cup {b}
                    /\ \A o \in DOMAIN approvals \ {b} : r.w.approvals[o] = approvals[o]
                    /\ r.w.escrows = escrows
                    /\ r.w.bal = bal
            /\ r.res # "Ok" => Outcome(World, r) = World

\* An approval is stored for a partially refunded escrow, and a call with
\* another amount and mode is accepted in its place.
C23_Witness ==
    /\ admin
    /\ \E b \in DOMAIN approvals :
         /\ b \in DOMAIN escrows
         /\ escrows[b].status = "PartiallyRefunded"
         /\ approvals[b].mode = "Custom"
         /\ LET r == approve_refund(World, b, 1, Depositor, "Partial", now)
            IN  r.res = "Ok" /\ r.w.approvals[b].amount = 1
                /\ r.w.approvals[b] # approvals[b]

\* ------------------------------------------------------------------------
\* lock_funds: rejected arguments
\* ------------------------------------------------------------------------
LockArgs ==
    [bounty_id : BountyIds, amount : {0 - 1, 0, 1, MaxAmount},
     deadline : 0..(MaxTime + 1)]

\* C24: on an unpaused contract, with the rate limiter letting the caller
\* through, lock_funds fails with InvalidAmount when amount <= 0, else with
\* InvalidDeadline when deadline <= the ledger time (deadline = now
\* included), else with NotInitialized when init has not run; each of these
\* calls leaves the escrows, the token balances and everything else as they
\* were.
C24_LockFundsRejects ==
    ~paused =>
      \A i \in LockArgs :
        LET r == lock_funds(World, TRUE, Depositor, i.bounty_id, i.amount,
                            i.deadline, now)
        IN  /\ i.amount <= 0 => r.res = "InvalidAmount"
            /\ (i.amount > 0 /\ i.deadline <= now) => r.res = "InvalidDeadline"
            /\ (i.amount > 0 /\ i.deadline > now /\ ~admin) => r.res = "NotInitialized"
            /\ (i.amount <= 0 \/ i.deadline <= now \/ ~admin)
                 => /\ Outcome(World, r) = World
                    /\ Outcome(World, r).escrows = escrows
                    /\ Outcome(World, r).bal = bal

\* An initialized, unpaused contract at a ledger time after 0, where a lock
\* of a free bounty id with deadline = now is refused.
C24_Witness ==
    /\ admin /\ ~paused /\ now > 0
    /\ \E b \in BountyIds :
         /\ ~Has(escrows, b)
         /\ bal[Depositor] >= MaxAmount
         /\ lock_funds(World, TRUE, Depositor, b, MaxAmount, now, now).res
              = "InvalidDeadline"
         /\ lock_funds(World, TRUE, Depositor, b, MaxAmount, now + 1, now).res = "Ok"

\* ------------------------------------------------------------------------
\* refund: rejected amounts
\* ------------------------------------------------------------------------
RefundArgs ==
    [bounty_id : BountyIds,
     amount : OptionOf({0 - 1, 0, 1, PartAmount, MaxAmount, MaxAmount + 1}),
     recipient : OptionOf(Recipients), mode : {"Partial", "Custom"}]

\* C25: on an unpaused contract, for an escrow that is Locked or
\* PartiallyRefunded: at or after the deadline a refund in mode Partial or
\* Custom whose supplied amount is <= 0 or above remaining_amount fails with
\* InvalidAmount, and at any time a refund in mode Custom without an amount
\* or without a recipient fails with InvalidAmount; the failed call changes
\* nothing.  (Mode Full does not read the amount argument: it requests
\* remaining_amount, which is positive.)
C25_RefundRejectsBadAmount ==
    ~paused =>
      \A i \in RefundArgs :
        (Has(escrows, i.bounty_id)
           /\ escrows[i.bounty_id].status \in {"Locked", "PartiallyRefunded"}) =>
          LET e == escrows[i.bounty_id]
              r == refund(World, i.bounty_id, i.amount, i.recipient, i.mode, now)
              bad == i.amount.some /\ (i.amount.v <= 0 \/ i.amount.v > e.remaining_amount)
              missing == i.mode = "Custom" /\ (~i.amount.some \/ ~i.recipient.some)
          IN  /\ e.remaining_amount > 0
              /\ ((now >= e.deadline /\ bad) \/ missing)
                   => r.res = "InvalidAmount" /\ Outcome(World, r) = World

\* At or after the deadline of a partially refunded escrow, a partial refund
\* of one more than what remains is refused while the whole remainder is
\* accepted.
C25_Witness ==
    /\ ~paused
    /\ \E b \in DOMAIN escrows :
         /\ escrows[b].status = "PartiallyRefunded"
         /\ now >= escrows[b].deadline
         /\ refund(World, b, Some(escrows[b].remaining_amount + 1), None,
                   "Partial", now).res = "InvalidAmount"
         /\ refund(World, b, Some(escrows[b].remaining_amount), None,
                   "Partial", now).res = "Ok"

\* ------------------------------------------------------------------------
\* Lifecycle hooks and the index
\* ------------------------------------------------------------------------
\* The index status that stands for an escrow status; the index has one
\* partial status, PartiallyReleased.
IndexStatusOf(status) ==
    CASE status = "Locked" -> "Locked"
      [] status = "Released" -> "Released"
      [] status = "Refunded" -> "Refunded"
      [] status = "PartiallyRefunded" -> "PartiallyReleased"

\* The hook invocations of a batch call: one per item, in order.
HooksOf(hook, items) == [i \in 1..Len(items) |-> <<hook, items[i].bounty_id>>]

\* Every successful lock, release or refund invokes its hook once per bounty
\* it affects.
HooksOncePerBounty ==
    /\ \A i \in LockInputs :
         LET r == lock_funds(World, TRUE, Depositor, i.bounty_id, i.amount,
                             i.deadline, now)
         IN  r.res = "Ok" => r.w.hooks = << <<"on_funds_locked", i.bounty_id>> >>
    /\ \A b \in BountyIds :
         LET r == release_funds(World, TRUE, b, Contributor, now)
         IN  r.res = "Ok" => r.w.hooks = << <<"on_funds_released", b>> >>
    /\ \A i \in RefundInputs :
         LET r == refund(World, i.bounty_id, i.amount, i.recipient, i.mode, now)
         IN  r.res = "Ok" => r.w.hooks = << <<"on_funds_refunded", i.bounty_id>> >>
    /\ \A items \in LockBatches :
         LET r == batch_lock_funds(World, items, now)
         IN  r.res = "Ok" => r.w.hooks = HooksOf("on_funds_locked", items)
    /\ \A items \in ReleaseBatches :
         LET r == batch_release_funds(World, items, now)
         IN  r.res = "Ok" => r.w.hooks = HooksOf("on_funds_released", items)

\* The index holds, for every escrow, the status that stands for its own.
IndexMatchesEscrows ==
    \A b \in DOMAIN escrows :
        /\ Has(index, b)
        /\ index[b].status = IndexStatusOf(escrows[b].status)

\* C26: every successful lock, release or refund, single or batch, invokes
\* the matching hook exactly once per affected bounty, and the index then
\* holds for every escrow the status that matches the stored one: Locked for
\* Locked, Released for Released, Refunded for Refunded, and the partial
\* status exactly for PartiallyRefunded.
C26_HooksKeepIndexExact == HooksOncePerBounty /\ IndexMatchesEscrows

\* ------------------------------------------------------------------------
\* anti_abuse: the rate limiter
\* ------------------------------------------------------------------------
\* get_config: nothing stores AntiAbuseKey::Config (set_config has no caller),
\* so the defaults apply.
get_config ==
    [window_size |-> WindowSize, max_operations |-> MaxOperations,
     cooldown_period |-> CooldownPeriod]

\* set_whitelist has no caller: no AntiAbuseKey::Whitelist(address) is stored.
Whitelisted == {}
is_whitelisted(address) == address \in Whitelisted

\* check_rate_limit: res is "Ok" when the call may go on, else the panic;
\* states is the storage when the function returns.
check_rate_limit(states, address, t) ==
    IF is_whitelisted(address) THEN [res |-> "Ok", states |-> states]
    ELSE
      LET config == get_config
          state == IF Has(states, address) THEN states[address]
                   ELSE [last_operation_timestamp |-> 0,
                         window_start_timestamp |-> t,
                         operation_count |-> 0]
      IN  IF state.last_operation_timestamp > 0
             /\ t < saturating_add(state.last_operation_timestamp,
                                   config.cooldown_period)
          THEN [res |-> "Operation in cooldown period", states |-> states]
          ELSE IF t >= saturating_add(state.window_start_timestamp,
                                      config.window_size)
          THEN [res |-> "Ok",
                states |-> Set(states, address,
                               [last_operation_timestamp |-> t,
                                window_start_timestamp |-> t,
                                operation_count |-> 1])]
          ELSE IF state.operation_count >= config.max_operations
          THEN [res |-> "Rate limit exceeded", states |-> states]
          ELSE [res |-> "Ok",
                states |-> Set(states, address,
                               [state EXCEPT
                                  !.operation_count = @ + 1,
                                  !.last_operation_timestamp = t])]

InitRate ==
    /\ escrowIdle
    /\ feeIdle
    /\ rateIdle
    /\ breakerIdle
    /\ otherIdle

\* The ledger closes: time moves on.
RateTick ==
    /\ now < MaxRateTime
    /\ now' = now + 1
    /\ UNCHANGED <<storeVars, gross, last, frame, ops, auxVars>>

\* A rate-limited call by the address whose remaining checks pass: when the
\* limiter panics the host discards the call, the limiter's writes included.
RateLimitedCall ==
    \E address \in RateAddrs :
      LET r == check_rate_limit(rateState, address, now)
      IN  /\ r.res = "Ok"
          /\ rateState' = r.states
          /\ allowedAt' = [allowedAt EXCEPT ![address] = Append(@, now)]
          /\ UNCHANGED <<escrowVars, feeCall, breakerVars, otherVars>>

NextRate == RateTick \/ RateLimitedCall

SpecRate == InitRate /\ [][NextRate]_vars

\* The ledger time of the address's previous allowed call, if it made one.
PreviousAllowed(address) ==
    IF Len(allowedAt[address]) = 0 THEN None
    ELSE Some(allowedAt[address][Len(allowedAt[address])])

\* C27: a rate-limited call by a non-whitelisted address less than
\* cooldown_period seconds after that address's previous allowed call is
\* aborted and leaves the limiter's storage as it was, at every ledger time,
\* also when the previous call was at ledger time 0.
C27_CooldownAborts ==
    \A address \in RateAddrs \ Whitelisted :
        LET p == PreviousAllowed(address)
            r == check_rate_limit(rateState, address, now)
        IN  (p.some /\ now < p.v + CooldownPeriod)
              => r.res # "Ok" /\ r.states = rateState

\* The number of allowed calls of the address in the window_size seconds
\* from t0 on.
AllowedWithin(address, t0) ==
    Cardinality({i \in 1..Len(allowedAt[address]) :
                   t0 <= allowedAt[address][i]
                   /\ allowedAt[address][i] < t0 + WindowSize})

\* C28: for every non-whitelisted address and every interval of window_size
\* seconds, wherever it starts, at most max_operations calls of the address
\* have been allowed within the interval.
C28_SlidingWindow ==
    \A address \in RateAddrs \ Whitelisted :
        \A t0 \in 0..MaxRateTime :
            AllowedWithin(address, t0) <= MaxOperations

\* ------------------------------------------------------------------------
\* The circuit breaker as execute_with_retry and its callers drive it
\* ------------------------------------------------------------------------
InitBreaker ==
    /\ escrowIdle
    /\ feeIdle
    /\ rateIdle
    /\ breakerIdle
    /\ otherIdle

BreakerIdleRest ==
    UNCHANGED <<storeVars, gross, last, frame, ops, feeCall, rateVars, otherVars>>

BreakerTick ==
    /\ now < MaxBreakerTime
    /\ now' = now + 1
    /\ UNCHANGED breakerVars
    /\ BreakerIdleRest

RecordSuccess ==
    /\ breakerLog.records < MaxRecords
    /\ breaker' = record_success(breaker, now)
    /\ breakerLog' = [breakerLog EXCEPT
                        !.op = "record_success", !.allowed = FALSE,
                        !.streak = 0, !.records = @ + 1,
                        !.successes = IF breaker.state = "HalfOpen"
                                      THEN @ + 1 ELSE @]
    /\ UNCHANGED now
    /\ BreakerIdleRest

\* Failures are recorded while the ledger times modelled leave room for the
\* timeout to pass afterwards.
RecordFailure ==
    /\ breakerLog.records < MaxRecords
    /\ now + TimeoutDuration <= MaxBreakerTime
    /\ breaker' = record_failure(breaker, now)
    /\ breakerLog' = [breakerLog EXCEPT
                        !.op = "record_failure", !.allowed = FALSE,
                        !.streak = @ + 1, !.records = @ + 1,
                        !.opened_at = IF breaker.state # "Open"
                                         /\ breaker'.state = "Open"
                                      THEN now ELSE @]
    /\ UNCHANGED now
    /\ BreakerIdleRest

IsRequestAllowed ==
    /\ LET r == is_request_allowed(breaker, now)
       IN  /\ breaker' = r.breaker
           /\ breakerLog' = [breakerLog EXCEPT
                               !.op = "is_request_allowed",
                               !.allowed = r.allowed,
                               !.successes = IF breaker.state = "Open"
                                                /\ r.breaker.state = "HalfOpen"
                                             THEN 0 ELSE @]
    /\ UNCHANGED now
    /\ BreakerIdleRest

ResetCircuitBreaker ==
    /\ breakerLog.records < MaxRecords
    /\ breaker' = reset_circuit_breaker(breaker, now)
    /\ breakerLog' = [breakerLog EXCEPT !.op = "reset_circuit_breaker",
                                        !.allowed = FALSE, !.streak = 0,
                                        !.records = @ + 1]
    /\ UNCHANGED now
    /\ BreakerIdleRest

NextBreaker ==
    \/ BreakerTick
    \/ RecordSuccess
    \/ RecordFailure
    \/ IsRequestAllowed
    \/ ResetCircuitBreaker

SpecBreaker == InitBreaker /\ [][NextBreaker]_vars

\* Time advances and requests keep being checked.
SpecBreakerFair ==
    /\ InitBreaker
    /\ [][NextBreaker]_vars
    /\ WF_vars(BreakerTick)
    /\ WF_vars(IsRequestAllowed)

\* One more outcome has been recorded in this step.
Recorded(op) == breakerLog'.op = op /\ breakerLog'.records = breakerLog.records + 1

ClosedCountsFailures ==
    breaker.state = "Closed" =>
        /\ breaker.failure_count = breakerLog.streak
        /\ breakerLog.streak < breaker.failure_threshold
        /\ is_request_allowed(breaker, now).allowed
        /\ is_request_allowed(breaker, now).breaker = breaker

ClosedOpensAtThreshold ==
    breaker.state = "Closed" =>
        /\ breaker'.state \in {"Closed", "Open"}
        /\ breaker'.state = "Open" <=>
              (Recorded("record_failure")
               /\ breakerLog'.streak = breaker.failure_threshold)
        /\ Recorded("record_success") =>
              breaker'.state = "Closed" /\ breaker'.failure_count = 0

\* C29: a Closed breaker holds as its failure count the number of failures
\* recorded since the last success (or reset), which is below
\* failure_threshold, and allows requests; a step takes it from Closed to
\* Open exactly when the step records the failure that brings that number to
\* failure_threshold; a success recorded in Closed sets the count to 0 and
\* leaves it Closed.
C29_ClosedBreaker == []ClosedCountsFailures /\ [][ClosedOpensAtThreshold]_vars

\* The breaker has just opened on its fifth failure in a row, after an
\* earlier failure and a success.
C29_Witness ==
    /\ breaker.state = "Open"
    /\ breakerLog.op = "record_failure"
    /\ breakerLog.streak = FAILURE_THRESHOLD
    /\ breakerLog.records = FAILURE_THRESHOLD + 2
    /\ breakerLog.opened_at = now

OpenDeniesUntilTimeout ==
    breaker.state = "Open" =>
        LET r == is_request_allowed(breaker, now)
        IN  /\ now < breakerLog.opened_at + breaker.timeout_duration
              => ~r.allowed /\ r.breaker = breaker
            /\ now >= breakerLog.opened_at + breaker.timeout_duration
              => r.allowed /\ r.breaker.state = "HalfOpen"

Admitted == breakerLog.op = "is_request_allowed" /\ breakerLog.allowed

HalfOpenCountsSuccesses ==
    breaker.state = "HalfOpen" =>
        /\ breakerLog.successes < breaker.success_threshold
        /\ breaker.failure_count = breaker.success_threshold - breakerLog.successes

HalfOpenCloses ==
    breaker.state = "HalfOpen" =>
        /\ (breaker'.state = "Closed" /\ ~Recorded("reset_circuit_breaker")) <=>
              (Recorded("record_success")
               /\ breakerLog'.successes = breaker.success_threshold)
        /\ Recorded("record_failure") => breaker'.state = "Open"
        /\ breaker'.state = "Open" => Recorded("record_failure")

\* C31: a HalfOpen breaker has seen fewer than success_threshold successes
\* since it became HalfOpen; a recorded outcome takes it to Closed exactly
\* when it is the success that brings that number to success_threshold, and
\* any failure recorded in HalfOpen takes it to Open, which nothing else
\* does.  (Besides the recorded outcomes, the admin's reset_circuit_breaker
\* closes the breaker from any state.)
C31_HalfOpenBreaker == []HalfOpenCountsSuccesses /\ [][HalfOpenCloses]_vars

\* The breaker has just closed on its second success in HalfOpen.
C31_Witness ==
    /\ breaker.state = "Closed"
    /\ breakerLog.op = "record_success"
    /\ breakerLog.successes = SUCCESS_THRESHOLD
    /\ breaker.last_state_change = now
    /\ breakerLog.opened_at + TimeoutDuration <= now
    /\ breakerLog.records = FAILURE_THRESHOLD + SUCCESS_THRESHOLD

\* ------------------------------------------------------------------------
\* execute_with_retry on the stored circuit breaker
\* ------------------------------------------------------------------------
\* What one invocation of the operation returns: success, a transient error,
\* a permanent error or a batch error.
OperationResults == {"Ok", "NetworkTimeout", "InsufficientFunds", "PartialBatchFailure"}

\* The operation's answers to MaxAttempts invocations in a row.
OperationRuns == [1..MaxAttempts -> OperationResults]

\* The runs the calls are made with: success, a transient and a permanent error.
CalledRuns == [1..MaxAttempts -> {"Ok", "NetworkTimeout", "InsufficientFunds"}]

InitRetry ==
    /\ escrowIdle
    /\ feeIdle
    /\ rateIdle
    /\ breakerIdle
    /\ otherIdle

RetryTick ==
    /\ now < MaxBreakerTime
    /\ now' = now + 1
    /\ UNCHANGED <<storeVars, gross, last, frame, ops, auxVars>>

ExecuteWithRetry ==
    \E max_attempts \in 0..MaxAttempts, outcomes \in CalledRuns :
      LET r == execute_with_retry(breaker, now, max_attempts, outcomes)
      IN  /\ breaker' = r.breaker
          /\ retryCall' = [max_attempts |-> max_attempts, outcomes |-> outcomes,
                           admitted |-> is_request_allowed(breaker, now).allowed,
                           result |-> r.result, error |-> r.error,
                           invoked |-> r.invoked, recorded |-> r.recorded]
          /\ UNCHANGED <<escrowVars, feeCall, rateVars, breakerLog, msVars, govVars>>

NextRetry == RetryTick \/ ExecuteWithRetry

SpecRetry == InitRetry /\ [][NextRetry]_vars

\* The first invocation, among the first n, that ends the retry loop: the
\* first that returns Ok or an error that is not transient; n + 1 if none.
FirstFinal(outcomes, n) ==
    LET final == {k \in 1..n : outcomes[k] = "Ok" \/ outcomes[k] \notin Transient}
    IN  IF final = {} THEN n + 1 ELSE CHOOSE k \in final : \A j \in final : k <= j

\* What the claim asks of a call with one of the given max_attempts.
RetryContract(attempts) ==
    \A max_attempts \in attempts, outcomes \in OperationRuns :
      LET r == execute_with_retry(breaker, now, max_attempts, outcomes)
          k == FirstFinal(outcomes, max_attempts)
      IN  IF is_request_allowed(breaker, now).allowed
          THEN /\ 1 <= r.invoked /\ r.invoked <= max_attempts
               /\ Len(r.recorded) = 1
               /\ k <= max_attempts /\ outcomes[k] = "Ok" =>
                     r.result = "Success" /\ r.invoked = k
                     /\ r.recorded = <<"success">>
               /\ k <= max_attempts /\ outcomes[k] # "Ok" =>
                     r.result = "Failed" /\ r.error = outcomes[k] /\ r.invoked = k
                     /\ r.recorded = <<"failure">>
               /\ k > max_attempts =>
                     r.result = "Failed" /\ r.error = "MaxRetriesExceeded"
                     /\ r.invoked = max_attempts /\ r.recorded = <<"failure">>
          ELSE /\ r.result = "CircuitBreakerOpen"
               /\ r.invoked = 0
               /\ r.recorded = <<>>

\* The claim's contract holds for the configurations with max_attempts >= 1.
RetryContractFromOne == RetryContract(1..MaxAttempts)

\* C32: for every retry configuration, max_attempts = 0 included, a call the
\* breaker admits invokes the operation at least once and at most
\* max_attempts times, stops at the first success (Success) or the first
\* error that is not transient (Failed with that error), returns
\* Failed(MaxRetriesExceeded) when all attempts fail with transient errors,
\* and records exactly one outcome on the breaker; a call the breaker denies
\* returns CircuitBreakerOpen without invoking the operation.
C32_RetryContract == RetryContract(0..MaxAttempts)

\* ------------------------------------------------------------------------
\* MultiSig as the consuming contract drives it
\* ------------------------------------------------------------------------
MsAddrs == {"s1", "s2", "s3"}
SignerLists == {<<"s1">>, <<"s2">>, <<"s1", "s2">>, <<"s1", "s1">>, <<"s2", "s3">>}
ProposalIds == 1..MaxProposals

\* The multisig as its owner has set it up: one init call that returned.
InitMultiSig ==
    /\ escrowIdle
    /\ feeIdle
    /\ rateIdle
    /\ breakerIdle
    /\ retryIdle
    /\ govIdle
    /\ msLog = NoMsCall
    /\ \E signers \in SignerLists, threshold \in 0..3 :
         LET r == MultiSig_init(NoMultiSig, signers, threshold)
         IN  r.res = "Ok" /\ multisig = r.ms

\* A multisig call that returns is committed and logged; one that panics is
\* discarded by the host.
MsInvoke(r, op, id, who) ==
    /\ msLog.steps < MaxMsOps
    /\ r.res = "Ok"
    /\ multisig' = r.ms
    /\ msLog' = [op |-> op, id |-> id, who |-> who, steps |-> msLog.steps + 1]
    /\ UNCHANGED <<escrowVars, feeCall, rateVars, breakerVars, retryVars, govVars>>

MsInit ==
    \E signers \in SignerLists, threshold \in 0..3 :
      MsInvoke(MultiSig_init(multisig, signers, threshold), "init", 0, "-")

MsPropose ==
    \E proposer \in MsAddrs :
      /\ multisig.counter < MaxProposals
      /\ MsInvoke(MultiSig_propose(multisig, proposer), "propose",
                  multisig.counter + 1, proposer)

MsApprove ==
    \E proposal_id \in ProposalIds, signer \in MsAddrs :
      MsInvoke(MultiSig_approve(multisig, proposal_id, signer), "approve",
               proposal_id, signer)

MsMarkExecuted ==
    \E proposal_id \in ProposalIds :
      MsInvoke(MultiSig_mark_executed(multisig, proposal_id), "mark_executed",
               proposal_id, "-")

NextMultiSig == MsPropose \/ MsApprove \/ MsMarkExecuted

SpecMultiSig == InitMultiSig /\ [][NextMultiSig]_vars

\* The same with init called again at any time: MultiSig::init itself has no
\* guard against a second call, the contract that owns it has to have one.
NextMultiSigReinit == MsInit \/ NextMultiSig

SpecMultiSigReinit == InitMultiSig /\ [][NextMultiSigReinit]_vars

\* This step is the call op(id) succeeding.
MsStep(op, id) ==
    msLog'.steps = msLog.steps + 1 /\ msLog'.op = op /\ msLog'.id = id

\* The configured signers that have approved the proposal.
ApprovingSigners(ms, id) ==
    Range(ms.proposals[id].approvals) \cap Range(ms.config.v.signers)

MultiSigSteps ==
    \A id \in ProposalIds :
      /\ MsStep("mark_executed", id) =>
            /\ Has(multisig.proposals, id)
            /\ ~multisig.proposals[id].executed
            /\ multisig.config.some
            /\ Cardinality(ApprovingSigners(multisig, id))
                 >= multisig.config.v.threshold
      /\ MsStep("approve", id) =>
            /\ msLog'.who \in Range(multisig.config.v.signers)
            /\ msLog'.who \notin Range(multisig.proposals[id].approvals)
            /\ ~multisig.proposals[id].executed
      /\ (Has(multisig.proposals, id) /\ multisig.proposals[id].executed) =>
            /\ ~MsStep("mark_executed", id)
            /\ Has(multisig'.proposals, id)
            /\ multisig'.proposals[id] = multisig.proposals[id]

ApprovalsCountedOnce ==
    \A id \in DOMAIN multisig.proposals :
        LET a == multisig.proposals[id].approvals
        IN  Cardinality(Range(a)) = Len(a)

Voters == {"v1", "v2"}
Proposers == {"v1"}
VoteTypes == {"For", "Against", "Abstain"}
GovProposalIds == 0..(MaxGovProposals - 1)
GovConfigs ==
    {GovernanceConfig(2, 1, 10, 6667, 0, "OnePersonOneVote"),
     GovernanceConfig(1, 0, 2000, 5000, 100, "TokenWeighted"),
     GovernanceConfig(1, 0, 0, 5000, 101, "OnePersonOneVote"),
     GovernanceConfig(1, 0, 0, 4999, 0, "OnePersonOneVote"),
     GovernanceConfig(1, 0, 10001, 5000, 0, "OnePersonOneVote")}

\* Governance as its owner has set it up: one init_governance that returned.
InitGovernance ==
    /\ escrowIdle
    /\ feeIdle
    /\ rateIdle
    /\ breakerIdle
    /\ retryIdle
    /\ msIdle
    /\ \E config \in GovConfigs :
         LET r == init_governance(NoGovernance, config)
         IN  r.res = "Ok" /\ governance = r.g

GovRest == UNCHANGED <<storeVars, gross, last, frame, ops, feeCall, rateVars,
                       breakerVars, retryVars, msVars>>

\* The ledger clock moves by a second or by a whole execution window.
GovTick ==
    \E d \in {1, EXECUTION_WINDOW} :
      /\ now + d <= EXECUTION_WINDOW + MaxGovClock
      /\ (d = 1 => now % EXECUTION_WINDOW < MaxGovClock)
      /\ now' = now + d
      /\ UNCHANGED govVars
      /\ GovRest

GovInvoke(r) ==
    /\ governance.calls < MaxGovOps
    /\ r.res = "Ok"
    /\ governance' = [r.g EXCEPT !.calls = @ + 1]
    /\ UNCHANGED now
    /\ GovRest

GovInit == \E config \in GovConfigs : GovInvoke(init_governance(governance, config))

CreateProposal ==
    \E proposer \in Proposers :
      /\ governance.count < MaxGovProposals
      /\ GovInvoke(create_proposal(governance, now, proposer))

CastVote ==
    \E voter \in Voters, proposal_id \in GovProposalIds, vote_type \in VoteTypes :
      GovInvoke(cast_vote(governance, now, voter, proposal_id, vote_type))

FinalizeProposal ==
    \E proposal_id \in GovProposalIds :
      GovInvoke(finalize_proposal(governance, now, proposal_id))

ExecuteProposal ==
    \E executor \in Voters, proposal_id \in GovProposalIds :
      GovInvoke(execute_proposal(governance, now, executor, proposal_id))

NextGovernance ==
    GovTick \/ CreateProposal \/ CastVote \/ FinalizeProposal \/ ExecuteProposal

SpecGovernance == InitGovernance /\ [][NextGovernance]_vars

\* The same with init_governance called again at any time: the function has
\* no guard against a second call, the contract that owns it has to have one.
NextGovernanceReinit == GovInit \/ NextGovernance

SpecGovernanceReinit == InitGovernance /\ [][NextGovernanceReinit]_vars

RECURSIVE SumPower(_, _)
SumPower(votes, keys) ==
    IF keys = {} THEN 0
    ELSE LET k == CHOOSE x \in keys : TRUE
         IN  votes[k].voting_power + SumPower(votes, keys \ {k})

VotesOn(g, id) == {k \in DOMAIN g.votes : k[1] = id}

TalliesMatchVotes ==
    \A id \in DOMAIN governance.proposals :
      LET p == governance.proposals[id]
      IN  /\ p.votes_for + p.votes_against + p.votes_abstain
               = SumPower(governance.votes, VotesOn(governance, id))
          /\ p.total_votes = Cardinality(VotesOn(governance, id))

SecondVoteFails ==
    \A id \in DOMAIN governance.proposals, voter \in Voters, vote_type \in VoteTypes :
      LET p == governance.proposals[id]
          r == cast_vote(governance, now, voter, id, vote_type)
      IN  (/\ Has(governance.votes, <<id, voter>>)
           /\ p.status = "Active"
           /\ p.voting_start <= now
           /\ now <= p.voting_end)
          => /\ r.res = "AlreadyVoted"
             /\ GovOutcome(governance, r) = governance

VotesOnlyWhileOpen ==
    \A k \in (DOMAIN governance'.votes) \ (DOMAIN governance.votes) :
      /\ Has(governance.proposals, k[1])
      /\ governance.proposals[k[1]].status = "Active"
      /\ governance.proposals[k[1]].voting_start <= now
      /\ now <= governance.proposals[k[1]].voting_end
      /\ governance'.votes[k].voter = k[2]

RecordedVotesKept ==
    \A k \in DOMAIN governance.votes :
      Has(governance'.votes, k) /\ governance'.votes[k] = governance.votes[k]

QuorumMet(p, config) ==
    ((p.votes_for + p.votes_against + p.votes_abstain) * 10000)
        \div TOTAL_POSSIBLE_VOTES >= config.quorum_percentage

ApprovalMet(p, config) ==
    /\ p.votes_for + p.votes_against > 0
    /\ (p.votes_for * 10000) \div (p.votes_for + p.votes_against)
         >= config.approval_threshold

Expiration(p) == p.voting_end + p.execution_delay + EXECUTION_WINDOW

StatusMoves ==
    \A id \in DOMAIN governance.proposals :
      LET p == governance.proposals[id]
          q == governance'.proposals[id]
      IN  /\ Has(governance'.proposals, id)
          /\ q.status # p.status =>
               \/ /\ p.status = "Active"
                  /\ q.status \in {"Approved", "Rejected"}
                  /\ now > p.voting_end
                  /\ q.status = "Approved" =>
                       /\ QuorumMet(p, governance.config.v)
                       /\ ApprovalMet(p, governance.config.v)
               \/ /\ p.status = "Approved"
                  /\ q.status \in {"Executed", "Expired"}
                  /\ q.status = "Executed" =>
                       now >= p.voting_end + p.execution_delay
                  /\ q.status = "Expired" => now > Expiration(p)

NoVoteAfterFinalization ==
    \A k \in (DOMAIN governance'.votes) \ (DOMAIN governance.votes) :
      Has(governance.proposals, k[1]) =>
        governance.proposals[k[1]].status = "Active"

ExpiredOnceWindowPassed ==
    \A id \in DOMAIN governance.proposals, executor \in Voters :
      LET p == governance.proposals[id]
          r == execute_proposal(governance, now, executor, id)
      IN  (p.status = "Approved" /\ now > Expiration(p)) =>
             /\ r.res = "ProposalExpired"
             /\ GovOutcome(governance, r).proposals[id].status = "Expired"

\* C35: a proposal's status changes only from Active to Approved or Rejected,
\* when now > voting_end, and from Approved to Executed or Expired; it becomes
\* Approved only with quorum and approval threshold both met; it becomes
\* Executed only at or after voting_end + execution_delay and never leaves
\* Executed; no vote is recorded on a proposal that is no longer Active; and
\* execute_proposal on an Approved proposal whose execution window has passed
\* leaves it in status Expired.
C35_ProposalLifecycle ==
    /\ []ExpiredOnceWindowPassed
    /\ [][StatusMoves /\ NoVoteAfterFinalization]_vars

\* ------------------------------------------------------------------------
\* Custody against the funds the escrows still owe
\* ------------------------------------------------------------------------
RECURSIVE SumRemaining(_, _)
SumRemaining(es, ids) ==
    IF ids = {} THEN 0
    ELSE LET b == CHOOSE x \in ids : TRUE
         IN  es[b].remaining_amount + SumRemaining(es, ids \ {b})

OpenEscrows == {b \in DOMAIN escrows :
                  escrows[b].status \in {"Locked", "PartiallyRefunded"}}

\* emergency_withdraw pays the admin address, which no other call pays; a
\* call of it that finds custody empty changes nothing.
NoEmergencyWithdrawYet == bal[AdminAddr] = 0

OnlyEmergencyWithdrawPaysAdmin ==
    [][bal'[AdminAddr] # bal[AdminAddr] => last'.op = "emergency_withdraw"]_vars

\* C36: as long as emergency_withdraw has not been executed, the custody
\* balance is at least the sum of remaining_amount over the escrows in status
\* Locked or PartiallyRefunded, under every fee configuration.
C36_CustodyCoversOpenEscrows ==
    NoEmergencyWithdrawYet => bal[Custody] >= SumRemaining(escrows, OpenEscrows)

\* ------------------------------------------------------------------------
\* A batch of one item against the single call
\* ------------------------------------------------------------------------
EscrowFields(e) ==
    <<e.amount, e.remaining_amount, e.status, e.deadline, e.depositor>>

\* C37: from every state, under every fee configuration and for every lock
\* item, when batch_lock_funds with that one item and lock_funds with the
\* same depositor, bounty id, amount and deadline both succeed, the stored
\* escrow has the same amount, remaining_amount, status, deadline and
\* depositor, and the depositor, custody and the fee recipient hold the same
\* balances.
C37_SingleItemBatchLock ==
    \A item \in LockItems :
      LET batch == batch_lock_funds(World, <<item>>, now)
          single == lock_funds(World, TRUE, item.depositor, item.bounty_id,
                               item.amount, item.deadline, now)
      IN  (batch.res = "Ok" /\ single.res = "Ok") =>
            /\ EscrowFields(batch.w.escrows[item.bounty_id])
                 = EscrowFields(single.w.escrows[item.bounty_id])
            /\ \A a \in {item.depositor, Custody, feeConfig.fee_recipient} :
                 batch.w.bal[a] = single.w.bal[a]

\* C38: for every Locked escrow, contributor and fee configuration, when
\* batch_release_funds with that one item and release_funds on the same
\* bounty and contributor both succeed, the contributor, the fee recipient
\* and custody hold the same balances after either.
C38_SingleItemBatchRelease ==
    \A item \in ReleaseItems :
      LET batch == batch_release_funds(World, <<item>>, now)
          single == release_funds(World, TRUE, item.bounty_id, item.contributor, now)
      IN  (/\ Has(escrows, item.bounty_id)
           /\ escrows[item.bounty_id].status = "Locked"
           /\ batch.res = "Ok"
           /\ single.res = "Ok") =>
            \A a \in {item.contributor, feeConfig.fee_recipient, Custody} :
              batch.w.bal[a] = single.w.bal[a]

\* ------------------------------------------------------------------------
\* get_refund_eligibility
\* ------------------------------------------------------------------------
get_refund_eligibility(w, bounty_id, t) ==
    IF ~Has(w.escrows, bounty_id) THEN [res |-> "BountyNotFound"]
    ELSE
      LET escrow == w.escrows[bounty_id]
          deadline_passed == t >= escrow.deadline
          approval == IF Has(w.approvals, bounty_id)
                      THEN Some(w.approvals[bounty_id]) ELSE None
          can_refund == /\ escrow.status \in {"Locked", "PartiallyRefunded"}
                        /\ (deadline_passed \/ approval.some)
      IN  [res |-> "Ok", can_refund |-> can_refund,
           deadline_passed |-> deadline_passed,
           remaining |-> escrow.remaining_amount, approval |-> approval]

\* Every refund call on one bounty: each mode, every amount up to the largest
\* an escrow can hold or none, each recipient or none.
AnyRefundOn(bounty_id) ==
    [bounty_id : {bounty_id}, amount : OptionOf(0..MaxAmount),
     recipient : OptionOf(Recipients), mode : RefundModes]

RefundSucceeds(i) ==
    refund(World, i.bounty_id, i.amount, i.recipient, i.mode, now).res = "Ok"

\* C39: on an unpaused contract, when get_refund_eligibility reports
\* can_refund = true for a bounty some refund call on it succeeds in the same
\* state, and when it reports can_refund = false every refund call on it
\* fails.
C39_EligibilityMatchesRefund ==
    ~paused =>
      \A b \in BountyIds :
        LET e == get_refund_eligibility(World, b, now)
        IN  e.res = "Ok" =>
              /\ e.can_refund => \E i \in AnyRefundOn(b) : RefundSucceeds(i)
              /\ ~e.can_refund => \A i \in AnyRefundOn(b) : ~RefundSucceeds(i)

\* ------------------------------------------------------------------------
\* The guard of a suspended call
\* ------------------------------------------------------------------------
\* C40: while a lock_funds or release_funds call is suspended at its token
\* transfer, having set the reentrancy flag and not yet cleared it, the flag
\* is set: no nested call, a refund included, has cleared it.
C40_NestedCallKeepsGuard ==
    (Suspended /\ frame.op \in {"lock_funds", "release_funds"}) => guard
====
